---- MODULE Spec2Model ----
(***************************************************************************)
(* Model of microdrop's Protocol / Step document (src/microdrop/protocol.py) *)
(* as a state machine over a small object heap.                            *)
(*                                                                         *)
(* Step objects and their plugin_data dictionaries are heap objects named  *)
(* by positive integers, so that "the same object" and "an equal copy" are *)
(* different things in the model, as they are in Python.  Python's None is *)
(* the empty sequence and a present optional argument x is <<x>>.          *)
(***************************************************************************)
EXTENDS Integers, Sequences, FiniteSets, TLC

VARIABLES
    steps,                \* Protocol.steps: list of Step object ids
    step_obj,             \* heap of Step objects: id -> id of its plugin_data dict
    dict_obj,             \* heap of dict objects: id -> mapping plugin name -> payload
    current_step_number,  \* Protocol.current_step_number
    current_repetition,   \* Protocol.current_repetition
    n_repeats,            \* Protocol.n_repeats
    signals,              \* what emit_signal was called with during the last call
    pre,                  \* the protocol as it was when the last call started
    call,                 \* the last call: operation, arguments, raised error
    protocol_plugin_data, \* Protocol.plugin_data: the protocol-wide dict
    ostream,              \* the stream the caller gave to the last export
    result,               \* what the last serializer call returned or reported
    file,                 \* the file given to load: its format and its document
    loaded,               \* the object the last load or _upgrade made
    protocol_name,        \* Protocol.name
    directory,            \* the log directory: subdirectory name -> its files
    log,                  \* the live ExperimentLog
    allocated             \* the experiment_id of every log constructed so far

vars == <<steps, step_obj, dict_obj, current_step_number, current_repetition,
          n_repeats, signals, pre, call, protocol_plugin_data, ostream, result,
          file, loaded, protocol_name, directory, log, allocated>>

\* the variables of the serializers, which the step operations leave alone
serializer_vars == <<protocol_plugin_data, ostream, result, protocol_name>>

\* the variables of load and _upgrade
stored_vars == <<file, loaded>>

\* the variables of the experiment log and its directory
log_vars == <<directory, log, allocated>>

----------------------------------------------------------------------------
(* Bounds of the model and the input alphabets. *)

\* the longest step list a call may grow the protocol to
MaxSteps == 3

\* the same, in the specification of the deletions alone
MaxStepsDelete == 4

\* the largest count, and the longest values list, given to insert_steps
MaxBatch == 2

\* the largest n_repeats
MaxRepeats == 2

Plugins == {"a"}

Payloads == {1}

None == << >>

Some(x) == <<x>>

----------------------------------------------------------------------------
(* Python built-ins used by the code, on 0-based indices. *)

\* list index normalisation: a negative index counts from the end
PyIndex(s, i) == IF i < 0 THEN i + Len(s) ELSE i

\* s[i]
ListGet(s, i) == s[PyIndex(s, i) + 1]

\* del s[i]
ListDel(s, i) ==
    LET j == PyIndex(s, i)
    IN  SubSeq(s, 1, j) \o SubSeq(s, j + 2, Len(s))

\* s.insert(i, v): the index is clamped to [0, len(s)] after normalisation
ListInsert(s, i, v) ==
    LET n == Len(s)
        j == IF i < 0 THEN (IF i + n < 0 THEN 0 ELSE i + n)
                      ELSE (IF i > n THEN n ELSE i)
    IN  SubSeq(s, 1, j) \o <<v>> \o SubSeq(s, j + 1, n)

\* s[::-1]
Reversed(s) == [i \in 1..Len(s) |-> s[Len(s) + 1 - i]]

\* sorted(s)
Sorted(s) == SortSeq(s, LAMBDA a, b : a < b)

\* range(a, b)
Range(a, b) == [i \in 1..(IF b > a THEN b - a ELSE 0) |-> a + i - 1]

\* the empty dict {}
EmptyDict == [k \in {} |-> 0]

\* d[k] = v on a dict value
DictSet(m, k, v) == [x \in (DOMAIN m) \cup {k} |-> IF x = k THEN v ELSE m[x]]

----------------------------------------------------------------------------
(* The object heap.  A protocol value P is a record                        *)
(*   [steps, step_obj, dict_obj, cur, rep, nrep, sig].                      *)

\* the address of a newly allocated object: one that no live object has
FreshId(live) ==
    CHOOSE i \in 1..(Cardinality(live) + 1) :
        i \notin live /\ \A j \in 1..(i - 1) : j \in live

\* a new dict object holding mapping m
NewDict(P, m) ==
    LET id == FreshId(DOMAIN P.dict_obj)
    IN  [p |-> [P EXCEPT !.dict_obj = (id :> m) @@ P.dict_obj], id |-> id]

\* copy.deepcopy(d) of a dict object: payloads are values, the dict is new
DeepCopy(P, d) == NewDict(P, P.dict_obj[d])

----------------------------------------------------------------------------
(* class Step *)

\* Step.__init__ keeping the caller's dict instead of a deep copy of it
Step_init_shared(P, plugin_data) ==
    LET D  == IF plugin_data = None
              THEN NewDict(P, EmptyDict)
              ELSE [p |-> P, id |-> plugin_data[1]]
        id == FreshId(DOMAIN D.p.step_obj)
    IN  [p |-> [D.p EXCEPT !.step_obj = (id :> D.id) @@ D.p.step_obj], id |-> id]

\* Step.__init__(plugin_data=None): plugin_data is None or Some(dict id)
Step_init(P, plugin_data) ==
    LET D  == IF plugin_data = None
              THEN NewDict(P, EmptyDict)
              ELSE DeepCopy(P, plugin_data[1])
        id == FreshId(DOMAIN D.p.step_obj)
    IN  [p |-> [D.p EXCEPT !.step_obj = (id :> D.id) @@ D.p.step_obj], id |-> id]

\* Step.copy(): Step(plugin_data=copy.deepcopy(self.plugin_data))
Step_copy(P, s) ==
    LET C == DeepCopy(P, P.step_obj[s])
    IN  Step_init(C.p, Some(C.id))

\* Step.set_data(plugin_name, data): self.plugin_data[plugin_name] = data
Step_set_data(P, s, plugin_name, data) ==
    [P EXCEPT !.dict_obj[P.step_obj[s]] = DictSet(@, plugin_name, data)]

\* Step.plugin_data as a value (the mapping the step's dict object holds)
PluginData(P, s) == P.dict_obj[P.step_obj[s]]

----------------------------------------------------------------------------
(* Object lifetime.  An object no step list refers to is freed when the    *)
(* call returns; addresses carry no meaning, so each call starts from the  *)
(* live objects renamed in order of first occurrence in the step list.     *)

\* the elements of sequence s without repetition, by first occurrence
FirstOcc(s) ==
    LET F[i \in 0..Len(s)] ==
            IF i = 0 THEN << >>
            ELSE IF \E j \in 1..(i - 1) : s[j] = s[i] THEN F[i - 1]
                 ELSE Append(F[i - 1], s[i])
    IN  F[Len(s)]

\* the position of x in a sequence without repetition
IndexOf(s, x) == CHOOSE i \in 1..Len(s) : s[i] = x

\* drop every object that is not reachable from P.steps
Collect(P) ==
    LET liveSteps == {P.steps[i] : i \in 1..Len(P.steps)}
        liveDicts == {P.step_obj[s] : s \in liveSteps}
    IN  [P EXCEPT !.step_obj = [s \in liveSteps |-> P.step_obj[s]],
                  !.dict_obj = [d \in liveDicts |-> P.dict_obj[d]]]

\* rename the live objects 1, 2, ... by first occurrence
Canon(P) ==
    LET so   == FirstOcc(P.steps)
        dseq == [i \in 1..Len(so) |-> P.step_obj[so[i]]]
        do   == FirstOcc(dseq)
    IN  [P EXCEPT !.steps    = [i \in 1..Len(P.steps) |-> IndexOf(so, P.steps[i])],
                  !.step_obj = [k \in 1..Len(so) |-> IndexOf(do, dseq[k])],
                  !.dict_obj = [k \in 1..Len(do) |-> P.dict_obj[do[k]]]]

----------------------------------------------------------------------------
(* class Protocol: execution state and the step-sequence operations *)

\* plugin_manager.emit_signal(name, args): recorded in call order
emit_signal(P, name, args) ==
    [P EXCEPT !.sig = Append(@, [name |-> name, args |-> args])]

\* Protocol.current_step(): self.steps[self.current_step_number]
current_step(P) == ListGet(P.steps, P.cur)

\* goto_step emitting only where the index changes
goto_step_if_changed(P, step_number) ==
    LET original_step_number == P.cur
        P1 == [P EXCEPT !.cur = step_number]
    IN  IF original_step_number = step_number THEN P1
        ELSE emit_signal(P1, "on_step_swapped",
                         <<original_step_number, step_number>>)

\* Protocol.goto_step(step_number)
goto_step(P, step_number) ==
    LET original_step_number == P.cur
        P1 == [P EXCEPT !.cur = step_number]
    IN  emit_signal(P1, "on_step_swapped", <<original_step_number, step_number>>)

\* insert_step emitting on_step_inserted a second time
insert_step_notify_twice(P, step_number, value, notify) ==
    LET sn == IF step_number = None THEN P.cur ELSE step_number[1]
        V  == IF value = None THEN Step_init(P, None)
                              ELSE [p |-> P, id |-> value[1]]
        P1 == [V.p EXCEPT !.steps = ListInsert(@, sn, V.id)]
        P2 == emit_signal(P1, "on_step_created", <<P1.cur>>)
        P3 == emit_signal(P2, "on_step_inserted", <<P2.cur>>)
    IN  IF notify THEN emit_signal(P3, "on_step_inserted", <<P3.cur>>) ELSE P2

\* Protocol.insert_step(step_number=None, value=None, notify=True)
insert_step(P, step_number, value, notify) ==
    LET sn == IF step_number = None THEN P.cur ELSE step_number[1]
        V  == IF value = None THEN Step_init(P, None)
                              ELSE [p |-> P, id |-> value[1]]
        P1 == [V.p EXCEPT !.steps = ListInsert(@, sn, V.id)]
        P2 == emit_signal(P1, "on_step_created", <<P1.cur>>)
    IN  IF notify THEN emit_signal(P2, "on_step_inserted", <<P2.cur>>) ELSE P2

\* the loop of insert_steps: for value in values[::-1]: insert_step(..., notify=False)
RECURSIVE insert_each(_, _, _)
insert_each(P, step_number, values) ==
    IF values = << >> THEN P
    ELSE insert_each(insert_step(P, step_number, Some(Head(values)), FALSE),
                     step_number, Tail(values))

\* insert_steps looping over values instead of values[::-1]
insert_steps_forward(P, step_number, count, values) ==
    IF values = None /\ count = None
    THEN [p |-> P, raised |-> "ValueError"]
    ELSE
        LET V  == IF values = None
                  THEN LET S == Step_init(P, None)
                       IN  [p |-> S.p, vals |-> [i \in 1..count[1] |-> S.id]]
                  ELSE [p |-> P, vals |-> values[1]]
            P1 == insert_each(V.p, step_number, V.vals)
        IN  IF step_number = None
            THEN [p |-> P1, raised |-> "TypeError"]
            ELSE [p |-> emit_signal(P1, "on_steps_inserted",
                                    Range(step_number[1],
                                          step_number[1] + Len(V.vals))),
                  raised |-> ""]

\* Protocol.insert_steps(step_number=None, count=None, values=None).
\* The result is [p, raised]: with step_number None the loop inserts at the
\* cursor and range(None, None + len(values)) then raises TypeError, so no
\* on_steps_inserted is emitted.
insert_steps(P, step_number, count, values) ==
    IF values = None /\ count = None
    THEN [p |-> P, raised |-> "ValueError"]
    ELSE
        LET V  == IF values = None
                  THEN LET S == Step_init(P, None)
                       IN  [p |-> S.p, vals |-> [i \in 1..count[1] |-> S.id]]
                  ELSE [p |-> P, vals |-> values[1]]
            P1 == insert_each(V.p, step_number, Reversed(V.vals))
        IN  IF step_number = None
            THEN [p |-> P1, raised |-> "TypeError"]
            ELSE [p |-> emit_signal(P1, "on_steps_inserted",
                                    Range(step_number[1],
                                          step_number[1] + Len(V.vals))),
                  raised |-> ""]

\* delete_step without the default Step for an emptied protocol
delete_step_no_default(P, step_number) ==
    LET step_to_remove == ListGet(P.steps, step_number)
        P1 == [P EXCEPT !.steps = ListDel(@, step_number)]
        P2 == emit_signal(P1, "on_step_removed", <<step_number, step_to_remove>>)
    IN  IF Len(P2.steps) = 0
        THEN goto_step(P2, 0)
        ELSE IF P2.cur = Len(P2.steps)
        THEN goto_step(P2, step_number - 1)
        ELSE goto_step(P2, P2.cur)

\* delete_step putting the removed Step back into an emptied protocol
delete_step_reinsert(P, step_number) ==
    LET step_to_remove == ListGet(P.steps, step_number)
        P1 == [P EXCEPT !.steps = ListDel(@, step_number)]
        P2 == emit_signal(P1, "on_step_removed", <<step_number, step_to_remove>>)
    IN  IF Len(P2.steps) = 0
        THEN goto_step(insert_step(P2, Some(0), Some(step_to_remove), TRUE), 0)
        ELSE IF P2.cur = Len(P2.steps)
        THEN goto_step(P2, step_number - 1)
        ELSE goto_step(P2, P2.cur)

\* delete_step emitting on_step_removed after its compensating calls
delete_step_removed_last(P, step_number) ==
    LET step_to_remove == ListGet(P.steps, step_number)
        P1 == [P EXCEPT !.steps = ListDel(@, step_number)]
        P2 == IF Len(P1.steps) = 0
              THEN LET S == Step_init(P1, None)
                   IN  goto_step(insert_step(S.p, Some(0), Some(S.id), TRUE), 0)
              ELSE IF P1.cur = Len(P1.steps) THEN goto_step(P1, step_number - 1)
              ELSE goto_step(P1, P1.cur)
    IN  emit_signal(P2, "on_step_removed", <<step_number, step_to_remove>>)

\* Protocol.delete_step(step_number)
delete_step(P, step_number) ==
    LET step_to_remove == ListGet(P.steps, step_number)
        P1 == [P EXCEPT !.steps = ListDel(@, step_number)]
        P2 == emit_signal(P1, "on_step_removed", <<step_number, step_to_remove>>)
    IN  IF Len(P2.steps) = 0
        THEN LET S == Step_init(P2, None)
             IN  goto_step(insert_step(S.p, Some(0), Some(S.id), TRUE), 0)
        ELSE IF P2.cur = Len(P2.steps)
        THEN goto_step(P2, step_number - 1)
        ELSE goto_step(P2, P2.cur)

\* the loop of delete_steps: for id in sorted_ids: self.delete_step(id)
RECURSIVE delete_each(_, _)
delete_each(P, sorted_ids) ==
    IF sorted_ids = << >> THEN P
    ELSE delete_each(delete_step(P, Head(sorted_ids)), Tail(sorted_ids))

\* delete_steps whose loop stops one id short: for id in sorted_ids[:-1]
delete_steps_one_short(P, step_ids) ==
    LET sorted_ids == Reversed(Sorted(step_ids))
    IN  delete_each(P, SubSeq(sorted_ids, 1, Len(sorted_ids) - 1))

\* Protocol.delete_steps(step_ids)
delete_steps(P, step_ids) ==
    LET sorted_ids == Reversed(Sorted(step_ids))
    IN  delete_each(P, sorted_ids)

\* Protocol.next_step()
RECURSIVE next_step(_)
next_step(P) ==
    IF P.cur = Len(P.steps) - 1
    THEN LET C  == Step_copy(P, current_step(P))
             P1 == insert_step(C.p, Some(P.cur), Some(C.id), FALSE)
             P2 == next_step(P1)
         IN  emit_signal(P2, "on_step_inserted", <<P2.cur>>)
    ELSE goto_step(P, P.cur + 1)

\* next_repetition comparing with n_repeats instead of n_repeats - 1
next_repetition_one_more(P) ==
    IF P.rep < P.nrep
    THEN goto_step([P EXCEPT !.rep = P.rep + 1], 0)
    ELSE P

\* Protocol.next_repetition()
next_repetition(P) ==
    IF P.rep < P.nrep - 1
    THEN goto_step([P EXCEPT !.rep = P.rep + 1], 0)
    ELSE P

\* prev_step without its guard
prev_step_unguarded(P) == goto_step(P, P.cur - 1)

\* Protocol.prev_step()
prev_step(P) ==
    IF P.cur > 0 THEN goto_step(P, P.cur - 1) ELSE P

\* first_step leaving current_repetition as it is
first_step_keep_repetition(P) == goto_step(P, 0)

\* Protocol.first_step()
first_step(P) == goto_step([P EXCEPT !.rep = 0], 0)

\* Protocol.last_step()
last_step(P) == goto_step(P, Len(P.steps) - 1)

\* Protocol.__init__(name=None): one default Step, cursor and repetition 0
Protocol_init ==
    LET E == [steps |-> << >>, step_obj |-> << >>, dict_obj |-> << >>,
              cur |-> 0, rep |-> 0, nrep |-> 1, sig |-> << >>]
        S == Step_init(E, None)
    IN  [S.p EXCEPT !.steps = <<S.id>>]

----------------------------------------------------------------------------
(* The state machine: one action per call on the live Protocol.  A call    *)
(* runs to completion in one step and leaves, next to the protocol, what   *)
(* it was called with, what it emitted and the protocol it started from;   *)
(* Settle is the caller taking that outcome before it makes the next call. *)

\* the live protocol as a value, with nothing emitted yet
Live ==
    [steps |-> steps, step_obj |-> step_obj, dict_obj |-> dict_obj,
     cur |-> current_step_number, rep |-> current_repetition,
     nrep |-> n_repeats, sig |-> << >>]

\* no call is in progress and the outcome of the last one has been consumed
Idle == [op |-> "idle", step_number |-> None, arg |-> None, raised |-> ""]

\* the protocol a call starts from; calls are made one at a time
Enter == Live

\* the call returns (or raises) leaving protocol P
Return(P0, P, c) ==
    LET G == Collect(P)
    IN  /\ call = Idle
        /\ steps' = G.steps
        /\ step_obj' = G.step_obj
        /\ dict_obj' = G.dict_obj
        /\ current_step_number' = G.cur
        /\ current_repetition' = G.rep
        /\ n_repeats' = G.nrep
        /\ signals' = G.sig
        /\ pre' = P0
        /\ call' = c
        /\ UNCHANGED <<serializer_vars, stored_vars, log_vars>>

Called(op, step_number, arg, raised) ==
    [op |-> op, step_number |-> step_number, arg |-> arg, raised |-> raised]

\* no file has been given to load
NoFile == [format |-> "none", object |-> [class |-> "none"], ext |-> ""]

\* no serializer has been called
NoResult == [value |-> None, exceptions |-> << >>, calls |-> << >>, attempts |-> 0]

\* an optional insertion position: omitted, or 0..len(steps)
Positions == {None} \cup {Some(i) : i \in 0..Len(steps)}

\* the indices of the steps
Indices == 0..(Len(steps) - 1)

\* the dict literals a caller can write
Contents == UNION {[S -> Payloads] : S \in SUBSET Plugins}

\* the lists of distinct step indices, in every order
IndexLists ==
    {ids \in UNION {[1..k -> Indices] : k \in 0..Len(steps)} :
        \A i, j \in DOMAIN ids : i # j => ids[i] # ids[j]}

Init ==
    LET P == Protocol_init
    IN  /\ steps = P.steps
        /\ step_obj = P.step_obj
        /\ dict_obj = P.dict_obj
        /\ current_step_number = P.cur
        /\ current_repetition = P.rep
        /\ n_repeats = P.nrep
        /\ signals = << >>
        /\ pre = << >>
        /\ call = Called("__init__", None, None, "")
        /\ protocol_plugin_data = EmptyDict
        /\ ostream = << >>
        /\ result = NoResult
        /\ file = NoFile
        /\ loaded = None
        /\ protocol_name = None
        /\ directory = EmptyDict
        /\ log = None
        /\ allocated = << >>

\* protocol.insert_step(step_number, notify=notify), value omitted
InsertStepUpTo(max) ==
    /\ Len(steps) < max
    /\ \E sn \in Positions, notify \in BOOLEAN :
        LET P0 == Enter
        IN  Return(P0, insert_step(P0, sn, None, notify),
                   Called("insert_step", sn, [value |-> None, notify |-> notify], ""))

InsertStep == InsertStepUpTo(MaxSteps)

\* protocol.insert_step(step_number, protocol.steps[j].copy())
InsertCopy ==
    /\ Len(steps) < MaxSteps
    /\ \E sn \in Positions, j \in Indices :
        LET P0 == Enter
            C  == Step_copy(P0, ListGet(P0.steps, j))
        IN  Return(P0, insert_step(C.p, sn, Some(C.id), TRUE),
                   Called("insert_step", sn,
                          [value |-> Some(C.id), notify |-> TRUE, copy_of |-> j], ""))

\* protocol.insert_step(step_number, Step(plugin_data=protocol.steps[j].plugin_data))
InsertFromData ==
    /\ Len(steps) < MaxSteps
    /\ \E sn \in Positions, j \in Indices :
        LET P0 == Enter
            S  == Step_init(P0, Some(P0.step_obj[ListGet(P0.steps, j)]))
        IN  Return(P0, insert_step(S.p, sn, Some(S.id), TRUE),
                   Called("insert_step", sn,
                          [value |-> Some(S.id), notify |-> TRUE, data_of |-> j], ""))

\* the caller builds values = [Step(plugin_data=m) for m in lits]
RECURSIVE build_values(_, _)
build_values(P, lits) ==
    IF lits = << >> THEN [p |-> P, vals |-> << >>]
    ELSE LET D == NewDict(P, Head(lits))
             S == Step_init(D.p, Some(D.id))
             R == build_values(S.p, Tail(lits))
         IN  [p |-> R.p, vals |-> <<S.id>> \o R.vals]

\* protocol.insert_steps(step_number, values=[...])
InsertStepsValues ==
    \E sn \in Positions, k \in 1..MaxBatch :
        /\ Len(steps) + k <= MaxSteps
        /\ \E lits \in [1..k -> Contents] :
            LET P0 == Enter
                V  == build_values(P0, lits)
                R  == insert_steps(V.p, sn, None, Some(V.vals))
            IN  Return(P0, R.p,
                       Called("insert_steps", sn,
                              [count |-> None, values |-> Some(V.vals)], R.raised))

\* protocol.insert_steps(step_number, count=k)
InsertStepsCount ==
    \E sn \in Positions, k \in 0..MaxBatch :
        /\ Len(steps) + k <= MaxSteps
        /\ LET P0 == Enter
               R  == insert_steps(P0, sn, Some(k), None)
           IN  Return(P0, R.p,
                      Called("insert_steps", sn,
                             [count |-> Some(k), values |-> None], R.raised))

\* protocol.insert_steps(): neither count nor values
InsertStepsNothing ==
    LET P0 == Enter
        R  == insert_steps(P0, None, None, None)
    IN  Return(P0, R.p,
               Called("insert_steps", None,
                      [count |-> None, values |-> None], R.raised))

\* protocol.delete_step(i), i in range
DeleteStep ==
    \E i \in Indices :
        LET P0 == Enter
        IN  Return(P0, delete_step(P0, i), Called("delete_step", Some(i), None, ""))

\* protocol.delete_steps(ids), ids distinct and in range
DeleteSteps ==
    \E ids \in IndexLists :
        LET P0 == Enter
        IN  Return(P0, delete_steps(P0, ids), Called("delete_steps", None, ids, ""))

NextStep ==
    /\ (current_step_number = Len(steps) - 1) => Len(steps) < MaxSteps
    /\ LET P0 == Enter
       IN  Return(P0, next_step(P0), Called("next_step", None, None, ""))

NextRepetition ==
    LET P0 == Enter
    IN  Return(P0, next_repetition(P0), Called("next_repetition", None, None, ""))

PrevStep ==
    LET P0 == Enter
    IN  Return(P0, prev_step(P0), Called("prev_step", None, None, ""))

FirstStep ==
    LET P0 == Enter
    IN  Return(P0, first_step(P0), Called("first_step", None, None, ""))

LastStep ==
    LET P0 == Enter
    IN  Return(P0, last_step(P0), Called("last_step", None, None, ""))

\* protocol.goto_step(i), i in range
GotoStep ==
    \E i \in Indices :
        LET P0 == Enter
        IN  Return(P0, goto_step(P0, i), Called("goto_step", Some(i), None, ""))

\* protocol.steps[i].set_data(plugin_name, data)
StepSetData ==
    \E i \in Indices, plugin_name \in Plugins, data \in Payloads :
        LET P0 == Enter
        IN  Return(P0, Step_set_data(P0, ListGet(P0.steps, i), plugin_name, data),
                   Called("set_data", Some(i),
                          [plugin_name |-> plugin_name, data |-> data], ""))

\* protocol.n_repeats = n, by the protocol's owner: a positive integer
SetNRepeats ==
    \E n \in 1..MaxRepeats :
        /\ n # n_repeats
        /\ current_repetition < n
        /\ LET P0 == Enter
           IN  Return(P0, [P0 EXCEPT !.nrep = n],
                      Called("n_repeats", None, n, ""))

\* the caller has taken the outcome of the last call: the objects it freed
\* are gone and the record of the call is dropped
Settle ==
    /\ call # Idle
    /\ LET G == Canon(Live)
       IN  /\ steps' = G.steps
           /\ step_obj' = G.step_obj
           /\ dict_obj' = G.dict_obj
           /\ UNCHANGED <<current_step_number, current_repetition, n_repeats>>
           /\ signals' = << >>
           /\ pre' = << >>
           /\ call' = Idle
           /\ UNCHANGED <<serializer_vars, stored_vars, log_vars>>

Next ==
    \/ Settle
    \/ InsertStep
    \/ InsertCopy
    \/ InsertFromData
    \/ InsertStepsValues
    \/ InsertStepsCount
    \/ InsertStepsNothing
    \/ DeleteStep
    \/ DeleteSteps
    \/ NextStep
    \/ NextRepetition
    \/ PrevStep
    \/ FirstStep
    \/ LastStep
    \/ GotoStep
    \/ StepSetData
    \/ SetNRepeats

Spec == Init /\ [][Next]_vars

\* the deletions alone, on protocols of up to MaxStepsDelete default steps
InsertStepDelete == InsertStepUpTo(MaxStepsDelete)

NextDelete ==
    \/ Settle
    \/ InsertStepDelete
    \/ GotoStep
    \/ DeleteStep
    \/ DeleteSteps

SpecDelete == Init /\ [][NextDelete]_vars

----------------------------------------------------------------------------
(* The fault-isolating serializers: serialize_protocol, protocol_to_ndjson, *)
(* Protocol.to_ndjson and the repair operation.  A payload is a JSON       *)
(* number or a live Python object, which json cannot encode; JSON text is  *)
(* a value of its own, [json, ...], that json.loads turns back to a dict.  *)

\* Version(major, minor, micro)
Version(major, minor, micro) == <<major, minor, micro>>

\* the version strings found in documents
VersionStrings == {"0.0.0", "0.1.0", "0.2.0", "0.3.0", "0.4.0"}

\* Version.fromstring(s)
fromstring(s) ==
    CASE s = "0.0.0" -> Version(0, 0, 0)
      [] s = "0.1.0" -> Version(0, 1, 0)
      [] s = "0.2.0" -> Version(0, 2, 0)
      [] s = "0.3.0" -> Version(0, 3, 0)
      [] s = "0.4.0" -> Version(0, 4, 0)

\* str(version)
str(v) == CHOOSE s \in VersionStrings : fromstring(s) = v

\* a < b on Version objects
VersionLess(a, b) ==
    \/ a[1] < b[1]
    \/ a[1] = b[1] /\ a[2] < b[2]
    \/ a[1] = b[1] /\ a[2] = b[2] /\ a[3] < b[3]

\* Protocol.class_version
Protocol_class_version == str(Version(0, 2, 0))

\* the longest protocol given to the serializers
MaxSerSteps == 2

\* payloads that are live Python objects: json raises TypeError on them
Objects == {2}

SerPlugins == {"a", "b"}

SerPayloads == Payloads \cup Objects

\* payloads that implement the to-dict contract: step options objects with
\* a to_dict method, whose class has from_dict
OptionsObjects == {3}

\* the dictionaries their to_dict gives: they hold the '__class__' key
OptionsDicts == {4}

\* payloads that are plain dictionaries, without '__class__'
PlainDicts == {5}

\* plugin_data_ij.to_dict()
Options_to_dict(v) == v + 1

\* class_.from_dict(plugin_data_ij), after plugin_data_ij.pop('__class__')
Options_from_dict(d) == d - 1

\* the orders in which a dict may hand out its keys
KeyOrders ==
    {o \in [1..Cardinality(SerPlugins) -> SerPlugins] :
        \A i, j \in DOMAIN o : i # j => o[i] # o[j]}

\* d.iteritems(): the keys of dict value d in the dict's order
Items(d, order) == SelectSeq(order, LAMBDA k : k \in DOMAIN d)

\* del d[k] on a dict value
DictDel(d, k) == [x \in (DOMAIN d) \ {k} |-> d[x]]

\* str(exception) of json's TypeError for a value it cannot encode
NotSerializable(v) == [message |-> "is not JSON serializable", obj |-> v]

\* json.dumps(v) of one payload: [error, text], one of them None
dumps_payload(v) ==
    IF v \in Objects
    THEN [error |-> Some(NotSerializable(v)), text |-> None]
    ELSE [error |-> None,
          text |-> Some([json |-> IF v \in OptionsDicts \cup PlainDicts
                                  THEN "object" ELSE "number",
                         digits |-> v])]

\* json.dumps(d) of a dict of payloads: the first item json cannot write
\* raises, otherwise the text lists the members in the dict's order
dumps_dict(d, order) ==
    LET items == Items(d, order)
        bad   == SelectSeq(items, LAMBDA k : d[k] \in Objects)
    IN  IF bad # << >>
        THEN [error |-> Some(NotSerializable(d[Head(bad)])), text |-> None]
        ELSE [error |-> None,
              text |-> Some([json |-> "object",
                             members |-> [i \in 1..Len(items) |->
                                 [key |-> items[i],
                                  value |-> dumps_payload(d[items[i]]).text[1]]]])]

\* json.loads(text) of an object of numbers
loads_dict(text) ==
    [k \in {text.members[i].key : i \in 1..Len(text.members)} |->
        LET i == CHOOSE j \in 1..Len(text.members) : text.members[j].key = k
        IN  text.members[i].value.digits]

\* json.dumps of the header {name, version, plugin_data}
dumps_header(protocol_dict, order) ==
    LET pd == dumps_dict(protocol_dict.plugin_data, order)
    IN  IF pd.error # None THEN pd
        ELSE [error |-> None,
              text |-> Some([json |-> "header", name |-> protocol_dict.name,
                             version |-> protocol_dict.version,
                             plugin_data |-> pd.text[1]])]

\* json.dumps of the whole protocol dictionary
dumps_document(protocol_dict, order) ==
    LET header == dumps_header(protocol_dict, order)
        lines  == [i \in 1..Len(protocol_dict.steps) |->
                      dumps_dict(protocol_dict.steps[i], order)]
        bad    == {i \in 1..Len(lines) : lines[i].error # None}
    IN  IF header.error # None THEN header
        ELSE IF bad # {}
        THEN lines[CHOOSE i \in bad : \A j \in bad : i <= j]
        ELSE [error |-> None,
              text |-> Some([json |-> "document", header |-> header.text[1],
                             steps |-> [i \in 1..Len(lines) |-> lines[i].text[1]]])]

\* a protocol object: its step list and its protocol-wide plugin_data
Handle(P) == [steps |-> P.steps, plugin_data |-> P.plugin_data]

\* the to_dict loop of protocol_to_dict over the records of one step
to_dict_step(step_i) ==
    [k \in DOMAIN step_i |->
        IF step_i[k] \in OptionsObjects THEN Options_to_dict(step_i[k])
        ELSE step_i[k]]

\* protocol_to_dict(protocol): a new dict per step over the step's payloads
protocol_to_dict(P, protocol) ==
    [name |-> P.name, version |-> P.version,
     steps |-> [i \in 1..Len(protocol.steps) |->
                   to_dict_step(PluginData(P, protocol.steps[i]))],
     plugin_data |-> protocol.plugin_data]

\* what serialize_func was called with
CallOn(of, step, plugin) == [of |-> of, step |-> step, plugin |-> plugin]

\* the inner loop of serialize_protocol over the records of one failing
\* step: exception_step_i, the k-th dict of exception_steps, is updated and
\* a reference to it appended for every record that fails
RECURSIVE bisect_records(_, _, _, _, _)
bisect_records(exception_steps, exceptions, k, step_i, items) ==
    IF items = << >>
    THEN [exception_steps |-> exception_steps, exceptions |-> exceptions]
    ELSE LET plugin_name_ij == Head(items)
             plugin_data_ij == step_i[plugin_name_ij]
             r == dumps_payload(plugin_data_ij)
         IN  IF r.error = None
             THEN bisect_records(exception_steps, exceptions, k, step_i, Tail(items))
             ELSE bisect_records(
                     [exception_steps EXCEPT ![k] =
                         [step |-> @.step, error |-> r.error,
                          plugin |-> Some(plugin_name_ij),
                          data |-> Some(plugin_data_ij)]],
                     Append(exceptions, k), k, step_i, Tail(items))

\* the outer loop: for exception_step_i in exception_steps
RECURSIVE bisect_steps(_, _, _, _, _)
bisect_steps(exception_steps, exceptions, k, protocol_dict, order) ==
    IF k > Len(exception_steps)
    THEN [exception_steps |-> exception_steps, exceptions |-> exceptions]
    ELSE LET step_i == protocol_dict.steps[exception_steps[k].step + 1]
             B == bisect_records(exception_steps, exceptions, k, step_i,
                                 Items(step_i, order))
         IN  bisect_steps(B.exception_steps, B.exceptions, k + 1,
                          protocol_dict, order)

\* the dicts the caller finds in SerializationError.exceptions
Entry(e) == [step |-> e.step, plugin |-> e.plugin[1], data |-> e.data[1],
             error |-> e.error[1]]

\* what serialize_func is called with, in call order
serialize_calls(protocol_dict, exception_steps, order) ==
    LET n == Len(protocol_dict.steps)
        C[k \in 0..Len(exception_steps)] ==
            IF k = 0 THEN << >>
            ELSE LET i == exception_steps[k].step
                     items == Items(protocol_dict.steps[i + 1], order)
                 IN  C[k - 1] \o [j \in 1..Len(items) |-> CallOn("record", i, items[j])]
    IN  <<CallOn("document", -1, "")>>
            \o [i \in 1..n |-> CallOn("step", i - 1, "")]
            \o C[Len(exception_steps)]

\* serialize_protocol letting the error of the whole document through when
\* no step fails alone
serialize_protocol_reraise(protocol_dict, order) ==
    LET whole == dumps_document(protocol_dict, order)
        n     == Len(protocol_dict.steps)
        alone == [i \in 1..n |-> dumps_dict(protocol_dict.steps[i], order)]
        failing == SelectSeq([i \in 1..n |-> i - 1],
                             LAMBDA i : alone[i + 1].error # None)
        exception_steps == [k \in 1..Len(failing) |->
                               [step |-> failing[k],
                                error |-> alone[failing[k] + 1].error,
                                plugin |-> None, data |-> None]]
        B == bisect_steps(exception_steps, << >>, 1, protocol_dict, order)
    IN  IF whole.error = None
        THEN [raised |-> "", value |-> whole.text, exceptions |-> << >>,
              calls |-> <<CallOn("document", -1, "")>>]
        ELSE [raised |-> IF failing = << >> THEN "TypeError"
                         ELSE "SerializationError",
              value |-> None,
              exceptions |-> [j \in 1..Len(B.exceptions) |->
                                 Entry(B.exception_steps[B.exceptions[j]])],
              calls |-> serialize_calls(protocol_dict, exception_steps, order)]

\* serialize_protocol(protocol_dict, serialize_func), serialize_func being
\* json.dumps: [raised, value, exceptions, calls]
serialize_protocol(protocol_dict, order) ==
    LET whole == dumps_document(protocol_dict, order)
        n     == Len(protocol_dict.steps)
        alone == [i \in 1..n |-> dumps_dict(protocol_dict.steps[i], order)]
        failing == SelectSeq([i \in 1..n |-> i - 1],
                             LAMBDA i : alone[i + 1].error # None)
        exception_steps == [k \in 1..Len(failing) |->
                               [step |-> failing[k],
                                error |-> alone[failing[k] + 1].error,
                                plugin |-> None, data |-> None]]
        B == bisect_steps(exception_steps, << >>, 1, protocol_dict, order)
    IN  IF whole.error = None
        THEN [raised |-> "", value |-> whole.text, exceptions |-> << >>,
              calls |-> <<CallOn("document", -1, "")>>]
        ELSE [raised |-> "SerializationError", value |-> None,
              exceptions |-> [j \in 1..Len(B.exceptions) |->
                                 Entry(B.exception_steps[B.exceptions[j]])],
              calls |-> serialize_calls(protocol_dict, exception_steps, order)]

\* copy.deepcopy(protocol): new Step objects that hold new dicts
RECURSIVE deepcopy_steps(_, _)
deepcopy_steps(P, ss) ==
    IF ss = << >> THEN [p |-> P, steps |-> << >>]
    ELSE LET S == Step_init(P, Some(P.step_obj[Head(ss)]))
             R == deepcopy_steps(S.p, Tail(ss))
         IN  [p |-> R.p, steps |-> <<S.id>> \o R.steps]

\* the loop of _protocol_remove_exceptions: del plugin_data_i[plugin], which
\* raises KeyError when the record is not there (any more)
RECURSIVE remove_each(_, _, _)
remove_each(P, protocol, exceptions) ==
    IF exceptions = << >> THEN [p |-> P, raised |-> ""]
    ELSE LET exception_i == Head(exceptions)
             step_i == ListGet(protocol.steps, exception_i.step)
             plugin_data_i == P.step_obj[step_i]
         IN  IF exception_i.plugin \notin DOMAIN P.dict_obj[plugin_data_i]
             THEN [p |-> P, raised |-> "KeyError"]
             ELSE remove_each(
                     [P EXCEPT !.dict_obj[plugin_data_i] =
                                    DictDel(@, exception_i.plugin)],
                     protocol, Tail(exceptions))

\* the repair operation deleting nothing
protocol_remove_exceptions_keep(P, protocol, exceptions, inplace) ==
    IF inplace
    THEN [p |-> P, returned |-> None, raised |-> ""]
    ELSE LET C == deepcopy_steps(P, protocol.steps)
         IN  [p |-> C.p, raised |-> "",
              returned |-> Some([steps |-> C.steps,
                                 plugin_data |-> protocol.plugin_data])]

\* protocol_remove_exceptions(protocol, exceptions, inplace), through
\* _protocol_remove_exceptions: [p, returned, raised]
protocol_remove_exceptions(P, protocol, exceptions, inplace) ==
    IF inplace
    THEN LET R == remove_each(P, protocol, exceptions)
         IN  [p |-> R.p, returned |-> None, raised |-> R.raised]
    ELSE LET C == deepcopy_steps(P, protocol.steps)
             copy == [steps |-> C.steps, plugin_data |-> protocol.plugin_data]
             R == remove_each(C.p, copy, exceptions)
         IN  [p |-> R.p, raised |-> R.raised,
              returned |-> IF R.raised = "" THEN Some(copy) ELSE None]

\* the loop of protocol_to_ndjson over the steps from index i on: a step
\* that encodes is printed, one that does not is searched for the records
\* that fail alone, each reported in a dict of its own
RECURSIVE ndjson_steps(_, _, _, _, _)
ndjson_steps(written, exceptions, i, steps_, order) ==
    IF i >= Len(steps_)
    THEN [written |-> written, exceptions |-> exceptions]
    ELSE LET step_i == steps_[i + 1]
             line == dumps_dict(step_i, order)
             items == SelectSeq(Items(step_i, order),
                          LAMBDA k : dumps_payload(step_i[k]).error # None)
         IN  IF line.error = None
             THEN ndjson_steps(Append(written, line.text[1]), exceptions,
                               i + 1, steps_, order)
             ELSE ndjson_steps(written,
                     exceptions \o
                        [j \in 1..Len(items) |->
                            [step |-> i, plugin |-> items[j],
                             data |-> step_i[items[j]],
                             error |-> dumps_payload(step_i[items[j]]).error[1]]],
                     i + 1, steps_, order)

\* the end of protocol_to_ndjson: W is what the loop over the steps left
ndjson_return(W, stream_given) ==
    IF W.exceptions # << >>
    THEN [raised |-> "SerializationError", written |-> W.written,
          exceptions |-> W.exceptions, value |-> None]
    ELSE [raised |-> "", written |-> W.written, exceptions |-> << >>,
          value |-> IF stream_given THEN None ELSE Some(W.written)]

\* protocol_to_ndjson from the header on; the header is printed outside any
\* try, so its TypeError reaches the caller as it is
ndjson_header(header, steps_, stream_given, order) ==
    IF header.error # None
    THEN [raised |-> "TypeError", written |-> << >>, exceptions |-> << >>,
          value |-> None]
    ELSE ndjson_return(ndjson_steps(<<header.text[1]>>, << >>, 0, steps_, order),
                       stream_given)

\* protocol_to_ndjson on the dictionary form, steps = protocol_dict.pop('steps')
ndjson_dict(protocol_dict, stream_given, order) ==
    ndjson_header(dumps_header(protocol_dict, order), protocol_dict.steps,
                  stream_given, order)

\* protocol_to_ndjson(protocol, ostream): [raised, written, exceptions,
\* value], written being the lines printed to the stream
protocol_to_ndjson(P, protocol, stream_given, order) ==
    ndjson_dict(protocol_to_dict(P, protocol), stream_given, order)

\* what to_ndjson leaves when the first attempt is its last
ndjson_once(P, first, stream_given) ==
    [p |-> P, raised |-> first.raised, value |-> first.value,
     exceptions |-> first.exceptions, attempts |-> 1,
     stream |-> IF stream_given THEN first.written ELSE << >>]

\* what to_ndjson leaves after the retry on the repaired protocol; both
\* attempts printed to the stream the caller gave
ndjson_twice(P, first, retry, stream_given) ==
    [p |-> Collect(P), raised |-> retry.raised, value |-> retry.value,
     exceptions |-> retry.exceptions, attempts |-> 2,
     stream |-> IF stream_given THEN first.written \o retry.written ELSE << >>]

\* the retry of to_ndjson: protocol_to_ndjson(protocol_clean, ostream)
ndjson_retry(first, clean, stream_given, order) ==
    IF clean.raised # ""
    THEN [p |-> Collect(clean.p), raised |-> clean.raised, value |-> None,
          exceptions |-> << >>, attempts |-> 1,
          stream |-> IF stream_given THEN first.written ELSE << >>]
    ELSE ndjson_twice(clean.p, first,
                      protocol_to_ndjson(clean.p, clean.returned[1],
                                         stream_given, order),
                      stream_given)

\* the except clause of to_ndjson repairing the protocol itself
ndjson_except_inplace(P, first, stream_given, ignore_errors, order) ==
    IF first.raised # "SerializationError" \/ ~ignore_errors
    THEN ndjson_once(P, first, stream_given)
    ELSE ndjson_retry(first,
            [p |-> protocol_remove_exceptions(P, Handle(P), first.exceptions,
                                              TRUE).p,
             returned |-> Some(Handle(P)), raised |-> ""],
            stream_given, order)

\* to_ndjson repairing the protocol itself instead of a copy
to_ndjson_inplace(P, stream_given, ignore_errors, order) ==
    ndjson_except_inplace(P, protocol_to_ndjson(P, Handle(P), stream_given, order),
                          stream_given, ignore_errors, order)

\* the except clause of to_ndjson: re-raise, or repair a copy and retry
ndjson_except(P, first, stream_given, ignore_errors, order) ==
    IF first.raised # "SerializationError" \/ ~ignore_errors
    THEN ndjson_once(P, first, stream_given)
    ELSE ndjson_retry(first,
            protocol_remove_exceptions(P, Handle(P), first.exceptions, FALSE),
            stream_given, order)

\* Protocol.to_ndjson(ostream, ignore_errors): [p, raised, value,
\* exceptions, attempts, stream], stream being the caller's stream after
\* the call
to_ndjson(P, stream_given, ignore_errors, order) ==
    ndjson_except(P, protocol_to_ndjson(P, Handle(P), stream_given, order),
                  stream_given, ignore_errors, order)

\* the version strings the protocol schema accepts: 'enum': ['0.2.0']
SchemaVersions == {"0.2.0"}

\* the protocol schema without the enum of versions
ValidationError_any_version(protocol_dict) ==
    \/ "name" \notin DOMAIN protocol_dict
    \/ "version" \notin DOMAIN protocol_dict
    \/ protocol_dict.name = None

\* VALIDATORS['protocol'].validate(protocol_dict) raises ValidationError:
\* name and version are required, name is a string, version is in the enum
ValidationError(protocol_dict) ==
    \/ "name" \notin DOMAIN protocol_dict
    \/ "version" \notin DOMAIN protocol_dict
    \/ protocol_dict.name = None
    \/ protocol_dict.version \notin SchemaVersions

\* "'__class__' in plugin_data_ij" raises TypeError: the value is no
\* container
NotIterable(v) == v \notin OptionsDicts \cup PlainDicts

\* the from_dict loop of protocol_from_dict over the records of one step
from_dict_step(step_i) ==
    [k \in DOMAIN step_i |->
        IF step_i[k] \in OptionsDicts THEN Options_from_dict(step_i[k])
        ELSE step_i[k]]

\* the Protocol that protocol_from_dict builds, as a value: Protocol(name)
\* with the steps of the dictionary
Protocol_of(protocol_dict) ==
    [class |-> "Protocol", name |-> protocol_dict.name,
     version |-> Some(Protocol_class_version), plugin_data |-> EmptyDict,
     steps |-> [i \in 1..Len(protocol_dict.steps) |->
                   from_dict_step(protocol_dict.steps[i])],
     current_step_attempt |-> Some(0)]

\* protocol_from_dict(protocol_dict): [raised, protocol]
protocol_from_dict(protocol_dict) ==
    IF ValidationError(protocol_dict)
    THEN [raised |-> "ValidationError", protocol |-> None]
    ELSE IF protocol_dict.version # Protocol_class_version
    THEN [raised |-> "AssertionError", protocol |-> None]
    ELSE IF "steps" \notin DOMAIN protocol_dict
    THEN [raised |-> "KeyError", protocol |-> None]
    ELSE IF \E i \in DOMAIN protocol_dict.steps :
                \E k \in DOMAIN protocol_dict.steps[i] :
                    NotIterable(protocol_dict.steps[i][k])
    THEN [raised |-> "TypeError", protocol |-> None]
    ELSE [raised |-> "", protocol |-> Some(Protocol_of(protocol_dict))]

\* json.loads of the header object: every member but the steps
loads_header(text) ==
    [k \in (DOMAIN text) \ {"json"} |->
        IF k = "plugin_data" THEN loads_dict(text[k]) ELSE text[k]]

\* d['steps'] = steps on a dict value
with_steps(d, steps_) ==
    [k \in (DOMAIN d) \cup {"steps"} |-> IF k = "steps" THEN steps_ ELSE d[k]]

\* json.loads of a protocol document
loads_document(text) ==
    IF "steps" \in DOMAIN text
    THEN with_steps(loads_header(text.header),
                    [i \in 1..Len(text.steps) |-> loads_dict(text.steps[i])])
    ELSE loads_header(text.header)

\* Protocol.from_json(istream): [raised, protocol]; text that is not JSON
\* raises ValueError
from_json(text) ==
    IF text.json # "document" THEN [raised |-> "ValueError", protocol |-> None]
    ELSE protocol_from_dict(loads_document(text))

\* the dictionary from_ndjson reads: the first line is the header, every
\* following line one step
ndjson_loads(lines) ==
    with_steps(loads_header(Head(lines)),
               [i \in 1..(Len(lines) - 1) |-> loads_dict(lines[i + 1])])

\* Protocol.from_ndjson(istream): [raised, protocol]
from_ndjson(lines) == protocol_from_dict(ndjson_loads(lines))

\* protocol_to_json on the dictionary form: [raised, value, exceptions,
\* calls]
to_json_dict(protocol_dict, validate, order) ==
    IF validate /\ ValidationError(protocol_dict)
    THEN [raised |-> "ValidationError", value |-> None, exceptions |-> << >>,
          calls |-> << >>]
    ELSE serialize_protocol(protocol_dict, order)

\* protocol_to_json(protocol, validate)
protocol_to_json(P, protocol, validate, order) ==
    to_json_dict(protocol_to_dict(P, protocol), validate, order)

----------------------------------------------------------------------------
(* The serializers as a state machine: a protocol whose steps hold any     *)
(* payloads, exported and repaired by its owner.                           *)

\* the protocol with its protocol-wide fields, as a value
Document ==
    [steps |-> steps, step_obj |-> step_obj, dict_obj |-> dict_obj,
     cur |-> current_step_number, rep |-> current_repetition,
     nrep |-> n_repeats, sig |-> << >>,
     name |-> protocol_name, version |-> Protocol_class_version,
     plugin_data |-> protocol_plugin_data]

\* the plugin_data a step can hold
StepContents == UNION {[S -> SerPayloads] : S \in SUBSET SerPlugins}

\* the protocol-wide plugin_data: one plugin's payload
HeaderContents == [Plugins -> SerPayloads]

\* a protocol of 1..MaxSerSteps steps that hold any plugin data
InitSerialize ==
    \E n \in 1..MaxSerSteps :
        /\ steps = [i \in 1..n |-> i]
        /\ step_obj = [i \in 1..n |-> i]
        /\ dict_obj \in [1..n -> StepContents]
        /\ current_step_number = 0
        /\ current_repetition = 0
        /\ n_repeats = 1
        /\ signals = << >>
        /\ pre = << >>
        /\ call = Called("__init__", None, None, "")
        /\ protocol_plugin_data \in HeaderContents
        /\ ostream = << >>
        /\ result = NoResult
        /\ file = NoFile
        /\ loaded = None
        /\ protocol_name = Some("protocol")
        /\ directory = EmptyDict
        /\ log = None
        /\ allocated = << >>

\* the protocol a serializer call starts from: the caller has dropped what
\* the last call returned
EnterSerialize == Collect(Document)

\* the call returns (or raises) leaving heap P, the caller's stream and res
ReturnSerialize(P0, P, c, stream, res) ==
    /\ steps' = P.steps
    /\ step_obj' = P.step_obj
    /\ dict_obj' = P.dict_obj
    /\ protocol_plugin_data' = P.plugin_data
    /\ UNCHANGED <<current_step_number, current_repetition, n_repeats, signals>>
    /\ pre' = P0
    /\ call' = c
    /\ ostream' = stream
    /\ result' = res
    /\ UNCHANGED <<protocol_name, stored_vars, log_vars>>

\* serialize_protocol has returned or raised R
ReturnSerializeProtocol(P0, R) ==
    ReturnSerialize(P0, P0,
        Called("serialize_protocol", None, None, R.raised), << >>,
        [value |-> R.value, exceptions |-> R.exceptions,
         calls |-> R.calls, attempts |-> 1])

\* serialize_protocol(protocol.to_dict(), json.dumps)
SerializeProtocol ==
    \E order \in KeyOrders :
        ReturnSerializeProtocol(EnterSerialize,
            serialize_protocol(protocol_to_dict(EnterSerialize,
                                                Handle(EnterSerialize)), order))

\* to_ndjson has returned or raised R
ReturnToNdjson(P0, R, stream_given, ignore_errors) ==
    ReturnSerialize(P0, R.p,
        Called("to_ndjson", None,
               [ostream |-> stream_given, ignore_errors |-> ignore_errors],
               R.raised),
        R.stream,
        [value |-> R.value, exceptions |-> R.exceptions,
         calls |-> << >>, attempts |-> R.attempts])

\* protocol.to_ndjson(ostream, ignore_errors), ostream None or a new stream
ToNdjson ==
    \E order \in KeyOrders, stream_given \in BOOLEAN, ignore_errors \in BOOLEAN :
        ReturnToNdjson(EnterSerialize,
                       to_ndjson(EnterSerialize, stream_given, ignore_errors, order),
                       stream_given, ignore_errors)

\* remove_exceptions has returned or raised R
ReturnRemoveExceptions(P0, R, inplace) ==
    ReturnSerialize(P0, R.p,
        Called("remove_exceptions", None,
               [exceptions |-> result.exceptions, inplace |-> inplace,
                from |-> call.op],
               R.raised),
        << >>,
        [value |-> R.returned, exceptions |-> << >>, calls |-> << >>,
         attempts |-> 0])

\* protocol.remove_exceptions(error.exceptions, inplace), error being the
\* SerializationError the last export of this protocol raised
RemoveExceptions ==
    /\ call.raised = "SerializationError"
    /\ \E inplace \in BOOLEAN :
        ReturnRemoveExceptions(EnterSerialize,
            protocol_remove_exceptions(EnterSerialize, Handle(EnterSerialize),
                                       result.exceptions, inplace),
            inplace)

NextSerialize ==
    \/ SerializeProtocol
    \/ ToNdjson
    \/ RemoveExceptions

SpecSerialize == InitSerialize /\ [][NextSerialize]_vars

----------------------------------------------------------------------------
(* The dictionary and JSON forms as a state machine: a protocol built by   *)
(* its constructor and set_data, converted to a dictionary and back, and   *)
(* dictionaries and JSON texts from elsewhere given to the readers.        *)

\* the longest protocol converted
MaxDictSteps == 2

\* the payloads set_data is given
DictPayloads == Payloads \cup OptionsObjects \cup PlainDicts

\* the names given to the constructor; None is its default
Names == {None, Some("p")}

\* the step lists of a dictionary from elsewhere
DictSteps ==
    UNION {[1..n -> UNION {[S -> Payloads \cup OptionsDicts] : S \in SUBSET Plugins}] :
              n \in 0..1}

\* the dictionaries from elsewhere: any name, some versions, keys missing
Dicts ==
    {[k \in K |-> d[k]] :
        d \in [name : Names, version : {"0.1.0", "0.2.0"}, steps : DictSteps,
               plugin_data : {EmptyDict}],
        K \in {{"name", "version", "steps", "plugin_data"},
               {"version", "steps", "plugin_data"},
               {"name", "steps", "plugin_data"},
               {"name", "version", "plugin_data"}}}

\* json.dumps of a dictionary from elsewhere, as a header line
dumps_line(d) ==
    [k \in ((DOMAIN d) \ {"steps"}) \cup {"json"} |->
        IF k = "json" THEN "header"
        ELSE IF k = "plugin_data" THEN dumps_dict(d[k], << >>).text[1]
        ELSE d[k]]

\* json.dumps of a dictionary from elsewhere, as one document
dumps_text(d) ==
    IF "steps" \in DOMAIN d
    THEN [json |-> "document", header |-> dumps_line(d),
          steps |-> [i \in 1..Len(d.steps) |->
                        dumps_dict(d.steps[i], <<"a">>).text[1]]]
    ELSE [json |-> "document", header |-> dumps_line(d)]

\* the same as ndjson lines
dumps_lines(d) ==
    <<dumps_line(d)>> \o
        (IF "steps" \in DOMAIN d
         THEN [i \in 1..Len(d.steps) |-> dumps_dict(d.steps[i], <<"a">>).text[1]]
         ELSE << >>)

\* Protocol(name)
InitDict ==
    LET P == Protocol_init
    IN  /\ steps = P.steps
        /\ step_obj = P.step_obj
        /\ dict_obj = P.dict_obj
        /\ current_step_number = P.cur
        /\ current_repetition = P.rep
        /\ n_repeats = P.nrep
        /\ signals = << >>
        /\ pre = << >>
        /\ call = Called("__init__", None, None, "")
        /\ protocol_plugin_data = EmptyDict
        /\ ostream = << >>
        /\ result = NoResult
        /\ file = NoFile
        /\ loaded = None
        /\ protocol_name \in Names
        /\ directory = EmptyDict
        /\ log = None
        /\ allocated = << >>

\* the call returns (or raises) leaving heap P, the object o it made and
\* what it reported
ReturnDict(P0, P, c, o, res) ==
    /\ steps' = P.steps
    /\ step_obj' = P.step_obj
    /\ dict_obj' = P.dict_obj
    /\ pre' = P0
    /\ call' = c
    /\ loaded' = o
    /\ result' = res
    /\ UNCHANGED <<current_step_number, current_repetition, n_repeats, signals,
                   protocol_plugin_data, ostream, protocol_name, file, log_vars>>

\* protocol.steps[i].set_data(plugin_name, data)
DictSetData ==
    \E i \in Indices, plugin_name \in Plugins, data \in DictPayloads :
        ReturnDict(EnterSerialize,
                   Step_set_data(EnterSerialize, ListGet(EnterSerialize.steps, i),
                                 plugin_name, data),
                   Called("set_data", Some(i),
                          [plugin_name |-> plugin_name, data |-> data], ""),
                   None, NoResult)

\* protocol.insert_step(len(protocol)), appending a new step
DictInsertStep ==
    /\ Len(steps) < MaxDictSteps
    /\ ReturnDict(EnterSerialize,
                  Collect([insert_step(EnterSerialize, Some(Len(steps)), None, TRUE)
                              EXCEPT !.sig = << >>]),
                  Called("insert_step", Some(Len(steps)),
                         [value |-> None, notify |-> TRUE], ""),
                  None, NoResult)

\* a reader has returned or raised R
ReturnRead(op, arg, R) ==
    ReturnDict(EnterSerialize, EnterSerialize, Called(op, None, arg, R.raised),
               R.protocol, NoResult)

\* Protocol.from_dict(protocol.to_dict())
FromDictOfToDict ==
    ReturnRead("from_dict(to_dict)",
               protocol_to_dict(EnterSerialize, Handle(EnterSerialize)),
               protocol_from_dict(protocol_to_dict(EnterSerialize,
                                                   Handle(EnterSerialize))))

\* Protocol.from_dict(d), d from elsewhere
FromDict ==
    \E d \in Dicts : ReturnRead("from_dict", d, protocol_from_dict(d))

\* Protocol.from_json(json.dumps(d)), d from elsewhere
FromJson ==
    \E d \in Dicts : ReturnRead("from_json", d, from_json(dumps_text(d)))

\* Protocol.from_json(text), text that is not JSON
FromJsonGarbage ==
    ReturnRead("from_json", None, from_json([json |-> "garbage"]))

\* Protocol.from_ndjson(lines), the lines of d from elsewhere
FromNdjson ==
    \E d \in Dicts : ReturnRead("from_ndjson", d, from_ndjson(dumps_lines(d)))

\* protocol_to_json has returned or raised R
ReturnToJson(validate, R) ==
    ReturnDict(EnterSerialize, EnterSerialize,
               Called("to_json", None, [validate |-> validate], R.raised),
               None,
               [value |-> R.value, exceptions |-> R.exceptions,
                calls |-> R.calls, attempts |-> 1])

\* protocol_to_json(protocol, validate); Protocol.to_json has validate True
ToJson ==
    \E validate \in BOOLEAN :
        ReturnToJson(validate,
                     protocol_to_json(EnterSerialize, Handle(EnterSerialize),
                                      validate, <<"a", "b">>))

\* protocol.set_data(plugin_name, data): the protocol-wide plugin_data
DictProtocolSetData ==
    \E plugin_name \in Plugins, data \in PlainDicts :
        /\ protocol_plugin_data' = DictSet(protocol_plugin_data, plugin_name, data)
        /\ steps' = EnterSerialize.steps
        /\ step_obj' = EnterSerialize.step_obj
        /\ dict_obj' = EnterSerialize.dict_obj
        /\ pre' = EnterSerialize
        /\ call' = Called("Protocol.set_data", None,
                          [plugin_name |-> plugin_name, data |-> data], "")
        /\ loaded' = None
        /\ result' = NoResult
        /\ UNCHANGED <<current_step_number, current_repetition, n_repeats,
                       signals, ostream, protocol_name, file, log_vars>>

\* from_ndjson has returned or raised on the text to_ndjson returned in R
ReturnNdjsonRead(R) ==
    /\ R.raised = ""
    /\ ReturnRead("from_ndjson(to_ndjson)", R.value[1], from_ndjson(R.value[1]))

\* Protocol.from_ndjson(protocol.to_ndjson())
FromNdjsonOfToNdjson ==
    ReturnNdjsonRead(to_ndjson(EnterSerialize, FALSE, FALSE, <<"a", "b">>))

NextDict ==
    \/ DictSetData
    \/ DictProtocolSetData
    \/ DictInsertStep
    \/ FromDictOfToDict
    \/ FromNdjsonOfToNdjson
    \/ FromDict
    \/ FromJson
    \/ FromJsonGarbage
    \/ FromNdjson
    \/ ToJson

SpecDict == InitDict /\ [][NextDict]_vars

----------------------------------------------------------------------------
(* Stored documents: versions, payload encodings, _upgrade and load of     *)
(* Protocol and ExperimentLog.  A stored document is a value:              *)
(*   Protocol      [class, version, plugin_data, steps, current_step_attempt] *)
(*   ExperimentLog [class, version, data, uuid, metadata]                  *)
(* with None for an attribute the object does not have.  A payload is      *)
(* [obj, enc]: the object and the encodings applied to it, innermost first. *)

\* the longest step list, and record list, of a stored document
MaxStored == 1

\* ExperimentLog.class_version
ExperimentLog_class_version == str(Version(0, 3, 0))

\* yaml.dump(p): a string
yaml_dump(p) == [p EXCEPT !.enc = Append(@, "yaml")]

\* pickle.loads(p): raises unless p is a pickle string
pickle_loads(p) ==
    IF p.enc # << >> /\ p.enc[Len(p.enc)] = "pickle"
    THEN [raised |-> FALSE, value |-> [p EXCEPT !.enc = SubSeq(@, 1, Len(@) - 1)]]
    ELSE [raised |-> TRUE, value |-> p]

\* yaml.load(p): raises unless p is a yaml string
yaml_load(p) ==
    IF p.enc # << >> /\ p.enc[Len(p.enc)] = "yaml"
    THEN [raised |-> FALSE, value |-> [p EXCEPT !.enc = SubSeq(@, 1, Len(@) - 1)]]
    ELSE [raised |-> TRUE, value |-> p]

\* load's decoding of one payload: pickle, then yaml, else it is left as is
decode(p) ==
    IF ~pickle_loads(p).raised THEN pickle_loads(p).value
    ELSE IF ~yaml_load(p).raised THEN yaml_load(p).value
    ELSE p

\* the version strings _upgrade stores in self.version, in the order of the
\* assignments: one for each "if version < floor" that is taken
stored_versions(version, floors) ==
    SelectSeq(floors, LAMBDA t : VersionLess(version, fromstring(t)))

\* Protocol._upgrade with "elif version < Version(0,2)" for the second step
Protocol_upgrade_elif(self) ==
    LET version == fromstring(self.version[1])
        s1 == [self EXCEPT
                  !.plugin_data = [k \in DOMAIN @ |-> yaml_dump(@[k])],
                  !.steps = [i \in DOMAIN @ |->
                                [k \in DOMAIN @[i] |-> yaml_dump(@[i][k])]],
                  !.version = Some(str(Version(0, 1, 0)))]
        s2 == [self EXCEPT !.current_step_attempt = Some(0),
                           !.version = Some(str(Version(0, 2, 0)))]
    IN  IF VersionLess(fromstring(Protocol_class_version), version)
        THEN [self |-> self, raised |-> "FutureVersionError", versions |-> << >>]
        ELSE IF VersionLess(version, Version(0, 1, 0))
        THEN [self |-> s1, raised |-> "", versions |-> <<str(Version(0, 1, 0))>>]
        ELSE IF VersionLess(version, Version(0, 2, 0))
        THEN [self |-> s2, raised |-> "", versions |-> <<str(Version(0, 2, 0))>>]
        ELSE [self |-> self, raised |-> "", versions |-> << >>]

\* Protocol._upgrade(): [self, raised, versions], versions being the values
\* it stored in self.version, in order
Protocol_upgrade(self) ==
    LET version == fromstring(self.version[1])
        s1 == IF VersionLess(version, Version(0, 1, 0))
              THEN [self EXCEPT
                      !.plugin_data = [k \in DOMAIN @ |-> yaml_dump(@[k])],
                      !.steps = [i \in DOMAIN @ |->
                                    [k \in DOMAIN @[i] |-> yaml_dump(@[i][k])]],
                      !.version = Some(str(Version(0, 1, 0)))]
              ELSE self
        s2 == IF VersionLess(version, Version(0, 2, 0))
              THEN [s1 EXCEPT !.current_step_attempt = Some(0),
                              !.version = Some(str(Version(0, 2, 0)))]
              ELSE s1
    IN  IF VersionLess(fromstring(Protocol_class_version), version)
        THEN [self |-> self, raised |-> "FutureVersionError", versions |-> << >>]
        ELSE IF VersionLess(version, fromstring(Protocol_class_version))
        THEN [self |-> s2, raised |-> "",
              versions |-> stored_versions(version,
                              <<str(Version(0, 1, 0)), str(Version(0, 2, 0))>>)]
        ELSE [self |-> self, raised |-> "", versions |-> << >>]

\* the keys of a legacy (below 0.1.0) experiment log record
Sentinel == "control board hardware version"

ResultKeys == {"FeedbackResults", "SweepFrequencyResults", "SweepVoltageResults"}

\* "wheelerlab.dmf_control_board_" + step_data[Sentinel]
ControlBoard(hardware_version) ==
    "wheelerlab.dmf_control_board_" \o ToString(hardware_version.obj)

\* the loop over one legacy record's items, in the dict's order
RECURSIVE reshape_items(_, _, _, _)
reshape_items(new_data_i, step_data, plugin_name, items) ==
    IF items = << >> THEN new_data_i
    ELSE LET k == Head(items)
             v == step_data[k]
         IN  IF plugin_name # None /\ k \in ResultKeys
             THEN IF pickle_loads(v).raised
                  THEN reshape_items(new_data_i, step_data, plugin_name, Tail(items))
                  ELSE reshape_items(
                          DictSet(new_data_i, plugin_name[1],
                                  (k :> pickle_loads(v).value)),
                          step_data, plugin_name, Tail(items))
             ELSE LET core == IF "core" \in DOMAIN new_data_i
                              THEN new_data_i["core"] ELSE EmptyDict
                  IN  reshape_items(
                          DictSet(new_data_i, "core", DictSet(core, k, v)),
                          step_data, plugin_name, Tail(items))

\* the plugin name the legacy records give: the last record with the
\* sentinel key decides
legacy_plugin_name(data) ==
    LET with == {i \in DOMAIN data : Sentinel \in DOMAIN data[i]}
    IN  IF with = {} THEN None
        ELSE LET i == CHOOSE j \in with : \A l \in with : l <= j
             IN  Some(ControlBoard(data[i][Sentinel]))

\* ExperimentLog._upgrade without the test for a future version
ExperimentLog_upgrade_unchecked(self, order, uuid4) ==
    LET version == fromstring(self.version[1])
        s2 == IF VersionLess(version, Version(0, 2, 0))
              THEN [self EXCEPT !.uuid = Some(uuid4),
                                !.version = Some(str(Version(0, 2, 0)))]
              ELSE self
        s3 == IF VersionLess(version, Version(0, 3, 0))
              THEN [s2 EXCEPT !.metadata = Some(EmptyDict),
                              !.version = Some(str(Version(0, 3, 0)))]
              ELSE s2
    IN  [self |-> s3, raised |-> "",
         versions |-> stored_versions(version,
                         <<str(Version(0, 2, 0)), str(Version(0, 3, 0))>>)]

\* ExperimentLog._upgrade giving the log a new uuid whatever its version
ExperimentLog_upgrade_uuid(self, order, uuid4) ==
    LET version == fromstring(self.version[1])
        s3 == IF VersionLess(version, Version(0, 3, 0))
              THEN [self EXCEPT !.metadata = Some(EmptyDict),
                                !.version = Some(str(Version(0, 3, 0)))]
              ELSE self
    IN  IF VersionLess(fromstring(ExperimentLog_class_version), version)
        THEN [self |-> self, raised |-> "FutureVersionError", versions |-> << >>]
        ELSE [self |-> [s3 EXCEPT !.uuid = Some(uuid4)], raised |-> "",
              versions |-> stored_versions(version,
                              <<str(Version(0, 2, 0)), str(Version(0, 3, 0))>>)]

\* ExperimentLog._upgrade(): [self, raised, versions]; order is the order in
\* which a legacy record hands out its keys, uuid4 what uuid.uuid4() gives
ExperimentLog_upgrade(self, order, uuid4) ==
    LET version == fromstring(self.version[1])
        plugin_name == legacy_plugin_name(self.data)
        new_data == [i \in DOMAIN self.data |->
                        LET r == reshape_items(EmptyDict, self.data[i], plugin_name,
                                     SelectSeq(order,
                                         LAMBDA k : k \in DOMAIN self.data[i]))
                        IN  [name \in DOMAIN r |->
                                yaml_dump([obj |-> r[name], enc |-> << >>])]]
        s1 == IF VersionLess(version, Version(0, 1, 0))
              THEN [self EXCEPT !.data = new_data,
                                !.version = Some(str(Version(0, 1, 0)))]
              ELSE self
        s2 == IF VersionLess(version, Version(0, 2, 0))
              THEN [s1 EXCEPT !.uuid = Some(uuid4),
                              !.version = Some(str(Version(0, 2, 0)))]
              ELSE s1
        s3 == IF VersionLess(version, Version(0, 3, 0))
              THEN [s2 EXCEPT !.metadata = Some(EmptyDict),
                              !.version = Some(str(Version(0, 3, 0)))]
              ELSE s2
    IN  IF VersionLess(fromstring(ExperimentLog_class_version), version)
        THEN [self |-> self, raised |-> "FutureVersionError", versions |-> << >>]
        ELSE [self |-> s3, raised |-> "",
              versions |-> stored_versions(version,
                              <<str(Version(0, 1, 0)), str(Version(0, 2, 0)),
                                str(Version(0, 3, 0))>>)]

\* a decoded object of a built-in type (dict, list, str)
Builtin == [class |-> "dict"]

\* the object pickle.load, and after it yaml.load, make of the file: None
\* when neither can read it; JSON text is YAML for a dict
read_file(f) ==
    IF f.format \in {"pickle", "yaml"} THEN Some(f.object)
    ELSE IF f.format = "json" THEN Some(Builtin)
    ELSE None

\* the decoders load calls on the file, in order: yaml.load only when
\* pickle.load left out at None
decoders(f) == IF f.format = "pickle" THEN <<"pickle">> ELSE <<"pickle", "yaml">>

\* "out.filename = filename" raises AttributeError: an object of a built-in
\* type takes no new attribute
NoAttribute(out) == out.class \notin {"Protocol", "ExperimentLog"}

\* hasattr(out, 'version') or out.version = str(Version(0))
with_version(out) ==
    IF out.version = None THEN [out EXCEPT !.version = Some(str(Version(0, 0, 0)))]
    ELSE out

\* what Protocol.load returns or raises when from_json did R
load_json(R) == [out |-> R.protocol, raised |-> R.raised]

\* Protocol.load(filename): [out, raised]
Protocol_load(f) ==
    LET out == read_file(f)
        U   == Protocol_upgrade(with_version(out[1]))
    IN  IF f.format = "none" THEN [out |-> None, raised |-> "IOError"]
        ELSE IF f.ext = ".json"
        THEN load_json(from_json(IF f.format = "json" THEN f.object
                                 ELSE [json |-> "garbage"]))
        ELSE IF out = None THEN [out |-> None, raised |-> "TypeError"]
        ELSE IF NoAttribute(out[1]) THEN [out |-> None, raised |-> "AttributeError"]
        ELSE IF out[1].class # "Protocol" THEN [out |-> None, raised |-> "TypeError"]
        ELSE IF U.raised # "" THEN [out |-> None, raised |-> U.raised]
        ELSE [raised |-> "",
              out |-> Some([U.self EXCEPT
                     !.plugin_data = [k \in DOMAIN @ |-> decode(@[k])],
                     !.steps = [i \in DOMAIN @ |->
                                   [k \in DOMAIN @[i] |-> decode(@[i][k])]]])]

\* ExperimentLog.load(filename): [out, raised]
ExperimentLog_load(f, order, uuid4) ==
    LET out == read_file(f)
        U   == ExperimentLog_upgrade(with_version(out[1]), order, uuid4)
    IN  IF f.format = "none" THEN [out |-> None, raised |-> "IOError"]
        ELSE IF out = None THEN [out |-> None, raised |-> "TypeError"]
        ELSE IF NoAttribute(out[1]) THEN [out |-> None, raised |-> "AttributeError"]
        ELSE IF out[1].class # "ExperimentLog"
        THEN [out |-> None, raised |-> "TypeError"]
        ELSE IF U.raised # "" THEN [out |-> None, raised |-> U.raised]
        ELSE [raised |-> "",
              out |-> Some([U.self EXCEPT
                     !.data = [i \in DOMAIN @ |->
                                  [k \in DOMAIN @[i] |-> decode(@[i][k])]]])]

\* pickle.dumps(p): a string
pickle_dumps(p) == [p EXCEPT !.enc = Append(@, "pickle")]

\* a file that open(filename, 'wb') made and nothing was written to
EmptyFile == [format |-> "other", object |-> [class |-> "none"], ext |-> ""]

\* the copy Protocol.save writes: every payload pickled
Protocol_snapshot(self) ==
    [self EXCEPT !.plugin_data = [k \in DOMAIN @ |-> pickle_dumps(@[k])],
                 !.steps = [i \in DOMAIN @ |->
                               [k \in DOMAIN @[i] |-> pickle_dumps(@[i][k])]]]

\* Protocol.save that pickles the payloads of the protocol itself
Protocol_save_inplace(self, format) ==
    [self |-> Protocol_snapshot(self), raised |-> "",
     file |-> [format |-> format, object |-> Protocol_snapshot(self), ext |-> ""]]

\* Protocol.save(filename, format) to a new path: [self, file, raised]
Protocol_save(self, format) ==
    IF format \in {"pickle", "yaml"}
    THEN [self |-> self, raised |-> "",
          file |-> [format |-> format, object |-> Protocol_snapshot(self),
                    ext |-> ""]]
    ELSE [self |-> self, raised |-> "TypeError", file |-> EmptyFile]

\* the copy ExperimentLog.save writes: every payload in the given format
ExperimentLog_snapshot(self, format) ==
    [self EXCEPT !.data = [i \in DOMAIN @ |->
                              [k \in DOMAIN @[i] |->
                                  IF format = "pickle" THEN pickle_dumps(@[i][k])
                                  ELSE yaml_dump(@[i][k])]]]

\* ExperimentLog.save(filename, format) to a new path: [self, file,
\* raised]; a log without data writes no file
ExperimentLog_save(self, format) ==
    IF self.data = << >>
    THEN [self |-> self, raised |-> "", file |-> NoFile]
    ELSE IF format \in {"pickle", "yaml"}
    THEN [self |-> self, raised |-> "",
          file |-> [format |-> format, ext |-> "",
                    object |-> ExperimentLog_snapshot(self, format)]]
    ELSE [self |-> self, raised |-> "TypeError",
          file |-> IF \A i \in DOMAIN self.data : DOMAIN self.data[i] = {}
                   THEN EmptyFile ELSE NoFile]

----------------------------------------------------------------------------
(* Loading and upgrading as a state machine: a file that holds any stored  *)
(* document, read by either class.                                         *)

\* the encodings a stored payload may carry; "corrupt" is text that neither
\* pickle.loads nor yaml.load can read
StoredPayloads == {[obj |-> v, enc |-> e] :
                      v \in Payloads,
                      e \in {<< >>, <<"pickle">>, <<"yaml">>, <<"corrupt">>}}

\* a dict of stored payloads under the plugin names
StoredDicts == UNION {[S -> StoredPayloads] : S \in SUBSET Plugins}

\* an optional version attribute
StoredVersions == {None} \cup {Some(s) : s \in VersionStrings}

\* the Protocol objects a file may hold
StoredProtocols ==
    {[class |-> "Protocol", version |-> v, plugin_data |-> pd, steps |-> ss,
      current_step_attempt |-> a] :
        v \in StoredVersions, pd \in StoredDicts,
        ss \in UNION {[1..n -> StoredDicts] : n \in 1..MaxStored},
        a \in {None, Some(0)}}

\* the records of a log below 0.1.0: flat, the results pickled (or not)
LegacyRecords ==
    {d \in UNION {[S -> StoredPayloads] :
                    S \in SUBSET {Sentinel, "FeedbackResults",
                                  "SweepVoltageResults", "time"}} :
        \A k \in DOMAIN d :
            /\ k \in {Sentinel, "time"} => d[k].enc = << >>
            /\ k \in ResultKeys => d[k].enc # <<"yaml">>
            /\ k = "SweepVoltageResults" => d[k].enc = <<"pickle">>}

\* the records of a log from 0.1.0 on: encoded plugin data by plugin name
PluginRecords ==
    {d \in UNION {[S -> StoredPayloads] : S \in SUBSET ({"core"} \cup Plugins)} :
        \A k \in DOMAIN d : d[k].enc # << >>}

\* the ExperimentLog objects a file may hold
StoredLogs ==
    {[class |-> "ExperimentLog", version |-> v, data |-> d, uuid |-> u,
      metadata |-> m] :
        v \in StoredVersions,
        d \in UNION {[1..n -> LegacyRecords \cup PluginRecords] : n \in 0..MaxStored},
        u \in {None, Some("uuid-0")}, m \in {None, Some(EmptyDict)}}

\* the shape of the records goes with the version the document declares
WellFormed(doc) ==
    LET legacy == doc.version = None
                    \/ VersionLess(fromstring(with_version(doc).version[1]),
                                   Version(0, 1, 0))
    IN  IF doc.class = "Protocol"
        THEN (doc.current_step_attempt = None) <=>
                (doc.version = None
                    \/ VersionLess(fromstring(with_version(doc).version[1]),
                                   Version(0, 2, 0)))
        ELSE /\ \A i \in DOMAIN doc.data :
                    IF legacy THEN doc.data[i] \in LegacyRecords
                    ELSE doc.data[i] \in PluginRecords
             /\ (doc.metadata # None) =>
                    ~VersionLess(fromstring(with_version(doc).version[1]),
                                 Version(0, 3, 0))

\* the dictionaries found in JSON files
JsonDicts ==
    {d \in Dicts : "steps" \in DOMAIN d /\ d.steps = <<EmptyDict>>
                    /\ "name" \in DOMAIN d /\ d.name # None}

\* the files named *.json: JSON text, or the pickle of a Protocol
JsonFiles ==
    {[format |-> "json", object |-> dumps_text(d), ext |-> ".json"] : d \in JsonDicts}
        \cup {[format |-> "pickle", ext |-> ".json",
               object |-> [class |-> "Protocol", version |-> Some("0.2.0"),
                           plugin_data |-> EmptyDict, steps |-> <<EmptyDict>>,
                           current_step_attempt |-> Some(0)]]}

\* the files under another name that hold no document: JSON text, or the
\* pickle or yaml of a dict
OtherFiles ==
    {[format |-> "json", object |-> dumps_text(d), ext |-> ""] : d \in JsonDicts}
        \cup {[format |-> fmt, object |-> Builtin, ext |-> ""] :
                 fmt \in {"pickle", "yaml"}}

\* the files: a pickle or a yaml file of a document, or something else
Files ==
    {[format |-> fmt, object |-> doc, ext |-> ""] :
        fmt \in {"pickle", "yaml", "other"},
        doc \in {x \in StoredProtocols \cup StoredLogs : WellFormed(x)}}
      \cup JsonFiles \cup OtherFiles

\* the orders in which a legacy record may hand out its keys
LegacyOrders ==
    {<<Sentinel, "time", "FeedbackResults", "SweepVoltageResults">>,
     <<"SweepVoltageResults", "FeedbackResults", "time", Sentinel>>}

\* what uuid.uuid4() may give
Uuids == {"uuid-1", "uuid-2"}

\* a new Protocol, and a file to load or upgrade
InitUpgrade ==
    LET P == Protocol_init
    IN  /\ steps = P.steps
        /\ step_obj = P.step_obj
        /\ dict_obj = P.dict_obj
        /\ current_step_number = P.cur
        /\ current_repetition = P.rep
        /\ n_repeats = P.nrep
        /\ signals = << >>
        /\ pre = << >>
        /\ call = Called("__init__", None, None, "")
        /\ protocol_plugin_data = EmptyDict
        /\ ostream = << >>
        /\ result = NoResult
        /\ file \in Files
        /\ loaded = None
        /\ protocol_name = None
        /\ directory = EmptyDict
        /\ log = None
        /\ allocated = << >>

\* a call on a stored document ends: what it started from, the file as it
\* is left, the object made
ReturnStored(p, f, o, c) ==
    /\ file' = f
    /\ loaded' = o
    /\ pre' = p
    /\ call' = c
    /\ UNCHANGED <<steps, step_obj, dict_obj, current_step_number,
                   current_repetition, n_repeats, signals, serializer_vars,
                   log_vars>>

\* a load or an upgrade of the file ends
ReturnUpgrade(f, o, c) == ReturnStored(file, f, o, c)

\* the object in memory, where a call starts from it and not from a file
InMemory(o) == [format |-> "memory", object |-> o]

\* _upgrade has returned or raised U on the object read from the file
ReturnUpgraded(op, U) ==
    ReturnUpgrade(file, Some(U.self), Called(op, None, U.versions, U.raised))

\* _upgrade has returned or raised U on the object an earlier _upgrade left
ReturnUpgradedAgain(op, U) ==
    ReturnStored(InMemory(loaded[1]), file, Some(U.self),
                 Called(op, None, U.versions, U.raised))

\* pickle.load(file)._upgrade() on a Protocol
ProtocolUpgrade ==
    /\ read_file(file) # None
    /\ read_file(file)[1].class = "Protocol"
    /\ file.object.version # None
    /\ ReturnUpgraded("Protocol._upgrade", Protocol_upgrade(file.object))

\* pickle.load(file)._upgrade() on an ExperimentLog
ExperimentLogUpgrade ==
    /\ read_file(file) # None
    /\ read_file(file)[1].class = "ExperimentLog"
    /\ file.object.version # None
    /\ \E order \in LegacyOrders, uuid4 \in Uuids :
        ReturnUpgraded("ExperimentLog._upgrade",
                       ExperimentLog_upgrade(file.object, order, uuid4))

\* a second _upgrade() of the Protocol that was just upgraded
ProtocolUpgradeAgain ==
    /\ call.op = "Protocol._upgrade"
    /\ call.raised = ""
    /\ pre.format # "memory"
    /\ ReturnUpgradedAgain("Protocol._upgrade", Protocol_upgrade(loaded[1]))

\* a second _upgrade() of the ExperimentLog that was just upgraded
ExperimentLogUpgradeAgain ==
    /\ call.op = "ExperimentLog._upgrade"
    /\ call.raised = ""
    /\ pre.format # "memory"
    /\ \E order \in LegacyOrders, uuid4 \in Uuids :
        ReturnUpgradedAgain("ExperimentLog._upgrade",
                            ExperimentLog_upgrade(loaded[1], order, uuid4))

\* Protocol.load(filename)
ProtocolLoad ==
    LET L == Protocol_load(file)
    IN  ReturnUpgrade(file, L.out,
                      Called("Protocol.load", None,
                             IF file.ext = ".json" THEN <<"json">> ELSE decoders(file),
                             L.raised))

\* ExperimentLog.load(filename)
ExperimentLogLoad ==
    \E order \in LegacyOrders, uuid4 \in Uuids :
        LET L == ExperimentLog_load(file, order, uuid4)
        IN  ReturnUpgrade(file, L.out,
                          Called("ExperimentLog.load", None, decoders(file),
                                 L.raised))

\* the formats given to save
Formats == {"pickle", "yaml", "json"}

\* the last call loaded a document of the class, which is now live
LiveDocument(class) ==
    /\ call.op = class \o ".load"
    /\ call.raised = ""
    /\ loaded # None

\* save has returned or raised S on the document the last load gave
ReturnSaved(op, format, S) ==
    ReturnStored(InMemory(loaded[1]), S.file, Some(S.self),
                 Called(op, None, format, S.raised))

\* protocol.save(filename, format), filename a new path
ProtocolSave ==
    /\ LiveDocument("Protocol")
    /\ file.ext # ".json"
    /\ \E format \in Formats :
        ReturnSaved("Protocol.save", format, Protocol_save(loaded[1], format))

\* log.save(filename, format), filename a new path
ExperimentLogSave ==
    /\ LiveDocument("ExperimentLog")
    /\ \E format \in Formats :
        ReturnSaved("ExperimentLog.save", format,
                    ExperimentLog_save(loaded[1], format))

\* load has returned or raised L on the file save S left
ReturnSavedLoaded(format, S, L) ==
    ReturnStored(InMemory(loaded[1]), S.file, L.out,
                 Called("ExperimentLog.load(save)", None, format, L.raised))

\* ExperimentLog.load(filename) after log.save(filename, format)
ExperimentLogSaveLoad ==
    /\ LiveDocument("ExperimentLog")
    /\ \E format \in {"pickle", "yaml"}, order \in LegacyOrders, uuid4 \in Uuids :
        ReturnSavedLoaded(format, ExperimentLog_save(loaded[1], format),
            ExperimentLog_load(ExperimentLog_save(loaded[1], format).file,
                               order, uuid4))

NextUpgrade ==
    \/ ProtocolSave
    \/ ExperimentLogSave
    \/ ExperimentLogSaveLoad
    \/ ProtocolUpgrade
    \/ ExperimentLogUpgrade
    \/ ProtocolUpgradeAgain
    \/ ExperimentLogUpgradeAgain
    \/ ProtocolLoad
    \/ ExperimentLogLoad

SpecUpgrade == InitUpgrade /\ [][NextUpgrade]_vars

----------------------------------------------------------------------------
(* What the claims speak of: the protocol before and after the last call. *)

\* plugin_data of the step now at (0-based) index i
StepData(i) == dict_obj[step_obj[steps[i + 1]]]

\* plugin_data, when the call started, of the step then at index i
PreStepData(i) == pre.dict_obj[pre.step_obj[pre.steps[i + 1]]]

\* the objects of the step list and their payloads are as when the call started
SameSteps ==
    /\ steps = pre.steps
    /\ \A i \in 1..Len(steps) :
        /\ step_obj[steps[i]] = pre.step_obj[steps[i]]
        /\ dict_obj[step_obj[steps[i]]] = pre.dict_obj[step_obj[steps[i]]]

\* sequence s without the elements at the (0-based) indices in S
Without(s, S) ==
    LET W[i \in 0..Len(s)] ==
            IF i = 0 THEN << >>
            ELSE IF (i - 1) \in S THEN W[i - 1]
                 ELSE Append(W[i - 1], s[i])
    IN  W[Len(s)]

\* the signals of the last call that carry the given name
Emitted(name) == SelectSeq(signals, LAMBDA x : x.name = name)

----------------------------------------------------------------------------
(* C1: after any sequence of step-sequence operations with in-range index  *)
(* arguments, starting from a newly constructed Protocol, the protocol has *)
(* at least one step.                                                      *)
C1_AtLeastOneStep == Len(steps) >= 1

\* delete_steps has just deleted every step of a protocol of two or more
C1_Witness ==
    /\ call.op = "delete_steps"
    /\ Len(pre.steps) >= 2
    /\ Len(call.arg) = Len(pre.steps)
    /\ Len(steps) = 1

(* C2: after any sequence of the step-sequence operations with in-range    *)
(* index arguments, current_step_number is in [0, len(steps)).             *)
C2_CursorInRange == current_step_number \in 0..(Len(steps) - 1)

(* C3: a delete_step(i) that leaves the sequence non-empty and the cursor  *)
(* past the new end (old cursor = new length) moves the cursor to the new  *)
(* last index, whichever index i was deleted.                              *)
C3_CursorMovesToNewLast ==
    (/\ call.op = "delete_step"
     /\ Len(pre.steps) >= 2
     /\ pre.cur = Len(pre.steps) - 1)
        => current_step_number = Len(steps) - 1

(* C4: next_step() with the cursor at the last index of an N-step protocol *)
(* yields N+1 steps with the cursor at index N, the step at index N being  *)
(* a new object that deep-copies the step that was at index N-1, which     *)
(* stays at index N-1; otherwise it only advances the cursor by one.       *)
C4_NextStepAppendsCopy ==
    call.op = "next_step" =>
        LET N == Len(pre.steps)
        IN  IF pre.cur = N - 1
            THEN /\ Len(steps) = N + 1
                 /\ current_step_number = N
                 /\ SubSeq(steps, 1, N) = pre.steps
                 /\ steps[N + 1] \notin DOMAIN pre.step_obj
                 /\ step_obj[steps[N + 1]] \notin DOMAIN pre.dict_obj
                 /\ StepData(N) = PreStepData(N - 1)
            ELSE /\ SameSteps
                 /\ current_step_number = pre.cur + 1

(* C5: for distinct in-range indices that do not cover the whole protocol, *)
(* delete_steps removes exactly the steps that were at those indices,      *)
(* whatever the order of the indices, and leaves the others in their       *)
(* original relative order, each with its payload.                         *)
C5_DeleteStepsExact ==
    (/\ call.op = "delete_steps"
     /\ Len(call.arg) < Len(pre.steps))
        => /\ steps = Without(pre.steps, {call.arg[k] : k \in DOMAIN call.arg})
           /\ \A i \in 1..Len(steps) :
                dict_obj[step_obj[steps[i]]] = pre.dict_obj[pre.step_obj[steps[i]]]

\* delete_steps([2, 0, 1]) on four steps has left the step that was at index 3
C5_Witness ==
    /\ call.op = "delete_steps"
    /\ call.arg = <<2, 0, 1>>
    /\ Len(pre.steps) = 4
    /\ steps = <<pre.steps[4]>>

(* C6: delete_step(0) on a single-step Protocol leaves exactly one step, a *)
(* fresh default Step with empty plugin_data that is not the removed step, *)
(* and the cursor at index 0.                                              *)
C6_DeleteOnlyStepLeavesDefault ==
    (/\ call.op = "delete_step"
     /\ Len(pre.steps) = 1)
        => /\ Len(steps) = 1
           /\ steps[1] \notin DOMAIN pre.step_obj
           /\ step_obj[steps[1]] \notin DOMAIN pre.dict_obj
           /\ DOMAIN StepData(0) = {}
           /\ current_step_number = 0

\* the only step, which held plugin data, has just been deleted
C6_Witness ==
    /\ call.op = "delete_step"
    /\ Len(pre.steps) = 1
    /\ DOMAIN PreStepData(0) # {}

(* C7: next_repetition() increments current_repetition and sets the cursor *)
(* to step 0 if current_repetition < n_repeats - 1, and otherwise changes  *)
(* neither current_repetition nor the cursor nor the steps.                *)
C7_NextRepetition ==
    call.op = "next_repetition" =>
        /\ SameSteps
        /\ n_repeats = pre.nrep
        /\ IF pre.rep < pre.nrep - 1
           THEN /\ current_repetition = pre.rep + 1
                /\ current_step_number = 0
           ELSE /\ current_repetition = pre.rep
                /\ current_step_number = pre.cur
                /\ signals = << >>

\* with n_repeats = 2: the call at repetition 0, step 2 of 3 gave repetition 1, step 0
C7_Witness ==
    /\ call.op = "next_repetition"
    /\ pre.nrep = 2
    /\ pre.rep = 0
    /\ pre.cur = 2
    /\ Len(pre.steps) = 3
    /\ current_repetition = 1
    /\ current_step_number = 0

(* C8: a Step shares no plugin_data with a Step it was copied from: two    *)
(* Step objects never hold the same dict, the Step made by Step.copy(),    *)
(* Step(plugin_data=...) or next_step holds a new dict equal to its        *)
(* source's, and set_data on one Step changes the plugin_data of no other. *)
C8_StepOwnsPluginData ==
    /\ \A s, t \in DOMAIN step_obj : s # t => step_obj[s] # step_obj[t]
    /\ (call.op = "insert_step" /\ call.arg.value # None) =>
            LET new == call.arg.value[1]
                src == IF "copy_of" \in DOMAIN call.arg
                       THEN call.arg.copy_of ELSE call.arg.data_of
            IN  /\ step_obj[new] \notin DOMAIN pre.dict_obj
                /\ dict_obj[step_obj[new]] = PreStepData(src)
                /\ \A d \in DOMAIN pre.dict_obj : dict_obj[d] = pre.dict_obj[d]
    /\ (call.op = "next_step" /\ pre.cur = Len(pre.steps) - 1) =>
            \A s \in DOMAIN step_obj :
                s \notin DOMAIN pre.step_obj =>
                    /\ step_obj[s] \notin DOMAIN pre.dict_obj
                    /\ dict_obj[step_obj[s]] = PreStepData(pre.cur)
    /\ call.op = "set_data" =>
            \A j \in 0..(Len(steps) - 1) :
                steps[j + 1] # steps[call.step_number[1] + 1]
                    => StepData(j) = PreStepData(j)

\* a Step built from the non-empty plugin_data of another has been inserted
C8_Witness ==
    /\ call.op = "insert_step"
    /\ call.arg.value # None
    /\ "data_of" \in DOMAIN call.arg
    /\ DOMAIN PreStepData(call.arg.data_of) # {}

(* C9: prev_step(), first_step() and last_step() leave the step sequence   *)
(* unchanged and only move the cursor: first_step to 0, last_step to       *)
(* len(steps)-1, prev_step to cursor-1; prev_step at index 0 changes       *)
(* nothing and emits no notification.                                      *)
C9_CursorMovesOnly ==
    /\ call.op \in {"prev_step", "first_step", "last_step"} => SameSteps
    /\ call.op = "first_step" => current_step_number = 0
    /\ call.op = "last_step" => current_step_number = Len(pre.steps) - 1
    /\ call.op = "prev_step" =>
            IF pre.cur > 0
            THEN current_step_number = pre.cur - 1
            ELSE /\ current_step_number = pre.cur
                 /\ current_repetition = pre.rep
                 /\ n_repeats = pre.nrep
                 /\ signals = << >>

\* prev_step has been called at index 0 of a protocol of two or more steps
C9_Witness ==
    /\ call.op = "prev_step"
    /\ pre.cur = 0
    /\ Len(pre.steps) >= 2

\* k single inserts: insert_step(at, v1), insert_step(at + 1, v2), ...
RECURSIVE single_inserts(_, _, _)
single_inserts(P, at, values) ==
    IF values = << >> THEN P
    ELSE single_inserts(insert_step(P, Some(at), Some(Head(values)), TRUE),
                        at + 1, Tail(values))

(* C10: insert_steps(at, values=[v1..vk]) leaves the old sequence with     *)
(* v1..vk at indices at..at+k-1 in the given order, the same sequence as k *)
(* single inserts, and emits exactly one steps-inserted notification, for  *)
(* the index range at..at+k-1, and no step-inserted notification.          *)
C10_InsertStepsBatch ==
    (/\ call.op = "insert_steps"
     /\ call.step_number # None
     /\ call.arg.values # None)
        => LET at   == call.step_number[1]
               vals == call.arg.values[1]
               k    == Len(vals)
           IN  /\ steps = SubSeq(pre.steps, 1, at) \o vals
                            \o SubSeq(pre.steps, at + 1, Len(pre.steps))
               /\ steps = single_inserts(pre, at, vals).steps
               /\ Len(Emitted("on_steps_inserted")) = 1
               /\ Emitted("on_steps_inserted")[1].args = [i \in 1..k |-> at + i - 1]
               /\ Emitted("on_step_inserted") = << >>
               /\ call.raised = ""

\* two values have been inserted in front of the only step
C10_Witness ==
    /\ call.op = "insert_steps"
    /\ call.step_number = Some(0)
    /\ call.arg.values # None
    /\ Len(call.arg.values[1]) = 2
    /\ Len(pre.steps) = 1
    /\ Len(steps) = 3

C12_RemovalNotifiedFirst ==
    call.op = "delete_step" =>
        LET i == call.step_number[1]
        IN  /\ signals # << >>
            /\ signals[1] = [name |-> "on_step_removed",
                             args |-> <<i, pre.steps[i + 1]>>]
            /\ Len(Emitted("on_step_removed")) = 1
            /\ \A k \in 1..Len(signals) :
                    signals[k].name \in {"on_step_created", "on_step_inserted",
                                        "on_step_swapped"} => k > 1

\* the only step was deleted: removal, then created, inserted and swapped
C12_Witness ==
    /\ call.op = "delete_step"
    /\ Len(pre.steps) = 1
    /\ Len(signals) = 4
    /\ Emitted("on_step_created") # << >>
    /\ Emitted("on_step_inserted") # << >>
    /\ Emitted("on_step_swapped") # << >>

----------------------------------------------------------------------------
(* What the serializer claims speak of. *)

\* the dictionary form of the protocol the last call was given
PreDict == protocol_to_dict(pre, Handle(pre))

\* the (step index, plugin name) pairs of its records that json cannot encode
FailingPairs ==
    {x \in (0..(Len(pre.steps) - 1)) \X SerPlugins :
        /\ x[2] \in DOMAIN PreStepData(x[1])
        /\ PreStepData(x[1])[x[2]] \in Objects}

\* the failure-list entry that names a failing record
EntryOf(x) ==
    [step |-> x[1], plugin |-> x[2], data |-> PreStepData(x[1])[x[2]],
     error |-> NotSerializable(PreStepData(x[1])[x[2]])]

\* dict value d without the payloads json cannot encode
Encodable(d) == [k \in {x \in DOMAIN d : d[x] \notin Objects} |-> d[k]]

\* the live steps and their payloads are as when the call started
LiveUnchanged ==
    /\ steps = pre.steps
    /\ protocol_plugin_data = pre.plugin_data
    /\ \A i \in 1..Len(steps) :
        /\ step_obj[steps[i]] = pre.step_obj[steps[i]]
        /\ dict_obj[step_obj[steps[i]]] = pre.dict_obj[step_obj[steps[i]]]

(* C13: whenever serialize_protocol fails on the whole document, the       *)
(* failure list of its aggregate error has, for every record that fails to *)
(* serialize alone, an entry with that step index, plugin name, payload    *)
(* and error message, also when two records of one step fail.              *)
C13_EveryFailingRecordListed ==
    (/\ call.op = "serialize_protocol"
     /\ call.raised = "SerializationError")
        => \A x \in FailingPairs :
                \E j \in DOMAIN result.exceptions :
                    result.exceptions[j] = EntryOf(x)

\* exactly one payload of the document, and nothing else, is unencodable
OneUnencodable ==
    /\ Cardinality(FailingPairs) = 1
    /\ \A k \in DOMAIN pre.plugin_data : pre.plugin_data[k] \notin Objects

(* C14: for a document in which exactly one payload of one step is         *)
(* unencodable, serialize_protocol raises the aggregate error with a       *)
(* failure list of exactly one entry, naming that (step, plugin) pair, and *)
(* the protocol repaired with that list serializes without error.          *)
C14_SingleFailureNamedAndRepaired ==
    /\ (call.op = "serialize_protocol" /\ OneUnencodable) =>
            /\ call.raised = "SerializationError"
            /\ Len(result.exceptions) = 1
            /\ \A x \in FailingPairs : result.exceptions[1] = EntryOf(x)
    /\ (/\ call.op = "remove_exceptions"
        /\ call.arg.from = "serialize_protocol"
        /\ OneUnencodable) =>
            /\ call.raised = ""
            /\ LET repaired == IF call.arg.inplace THEN Handle(Document)
                               ELSE result.value[1]
               IN  \A order \in KeyOrders :
                    serialize_protocol(protocol_to_dict(Document, repaired),
                                       order).raised = ""

\* a copy of a two-step protocol was repaired with the one-entry list that
\* serialize_protocol gave for it
C14_Witness ==
    /\ call.op = "remove_exceptions"
    /\ call.arg.from = "serialize_protocol"
    /\ ~call.arg.inplace
    /\ OneUnencodable
    /\ Len(pre.steps) = 2
    /\ Len(call.arg.exceptions) = 1
    /\ result.value # None

(* C15: whenever a fault-isolating serializer (serialize_protocol or the   *)
(* newline-delimited export) raises its aggregate error, the failure list  *)
(* is not empty: it names at least one (step, plugin) pair.                *)
C15_FailureListNeverEmpty ==
    (/\ call.op \in {"serialize_protocol", "to_ndjson"}
     /\ call.raised = "SerializationError")
        => /\ result.exceptions # << >>
           /\ \A j \in DOMAIN result.exceptions :
                <<result.exceptions[j].step, result.exceptions[j].plugin>>
                    \in FailingPairs

(* C16: serialize_protocol returns what the serialization function gives   *)
(* for the whole document when that call succeeds, having called it on     *)
(* nothing else, and otherwise raises SerializationError and no other      *)
(* error; it leaves the protocol as it was.                                *)
C16_ResultOrAggregateError ==
    call.op = "serialize_protocol" =>
        /\ LiveUnchanged
        /\ IF \E order \in KeyOrders : dumps_document(PreDict, order).error = None
           THEN /\ call.raised = ""
                /\ \E order \in KeyOrders :
                        result.value = dumps_document(PreDict, order).text
                /\ result.value # None
                /\ result.calls = <<CallOn("document", -1, "")>>
                /\ result.exceptions = << >>
           ELSE /\ call.raised = "SerializationError"
                /\ result.value = None
                /\ result.calls[1] = CallOn("document", -1, "")

\* the whole document failed though each of its two steps serializes alone
C16_Witness ==
    /\ call.op = "serialize_protocol"
    /\ call.raised = "SerializationError"
    /\ Len(pre.steps) = 2
    /\ FailingPairs = {}
    /\ Len(result.calls) = 3

(* C17: the repair operation, given a protocol and a failure list the      *)
(* serializer produced for it, deletes every record the list names and     *)
(* keeps every other record, step and protocol field; with inplace=False   *)
(* it returns a modified copy and leaves its input unchanged, with         *)
(* inplace=True it modifies its input and returns nothing.                 *)
C17_RepairRemovesImplicated ==
    call.op = "remove_exceptions" =>
        LET implicated == {<<call.arg.exceptions[j].step,
                             call.arg.exceptions[j].plugin>> :
                                j \in DOMAIN call.arg.exceptions}
            kept(i) == [k \in {x \in DOMAIN PreStepData(i) :
                                  <<i, x>> \notin implicated} |->
                            PreStepData(i)[k]]
        IN  /\ call.raised = ""
            /\ protocol_plugin_data = pre.plugin_data
            /\ IF call.arg.inplace
               THEN /\ result.value = None
                    /\ steps = pre.steps
                    /\ \A i \in 0..(Len(steps) - 1) : StepData(i) = kept(i)
               ELSE /\ LiveUnchanged
                    /\ result.value # None
                    /\ LET copy == result.value[1]
                       IN  /\ Len(copy.steps) = Len(pre.steps)
                           /\ copy.plugin_data = pre.plugin_data
                           /\ \A i \in 1..Len(copy.steps) :
                                /\ copy.steps[i] \notin DOMAIN pre.step_obj
                                /\ step_obj[copy.steps[i]] \notin DOMAIN pre.dict_obj
                                /\ dict_obj[step_obj[copy.steps[i]]] = kept(i - 1)

\* the steps of the protocol the export took, without the failing records
Exported == [i \in 1..Len(pre.steps) |-> Encodable(PreStepData(i - 1))]

(* C18: whenever Protocol.to_ndjson returns without error, with or without *)
(* ignore_errors, what it wrote (the returned string, or the caller's      *)
(* stream) is one header line and then one line per step of the exported   *)
(* protocol, in step order, from which from_ndjson recovers the steps.     *)
C18_NdjsonHeaderThenSteps ==
    (/\ call.op = "to_ndjson"
     /\ call.raised = "")
        => LET out == IF call.arg.ostream THEN ostream ELSE result.value[1]
           IN  /\ Len(out) = 1 + Len(pre.steps)
               /\ out[1].json = "header"
               /\ out[1].name = pre.name
               /\ out[1].version = pre.version
               /\ loads_dict(out[1].plugin_data) = pre.plugin_data
               /\ \A i \in 2..Len(out) : out[i].json = "object"
               /\ ndjson_loads(out).steps = Exported

----------------------------------------------------------------------------
(* What the load and upgrade claims speak of. *)

\* the last call was made by the class of the document the file holds
OwnDocument ==
    /\ call.op \in {"Protocol._upgrade", "Protocol.load",
                    "ExperimentLog._upgrade", "ExperimentLog.load"}
    /\ read_file(pre) # None
    /\ pre.format \in {"pickle", "yaml"}
    /\ pre.ext # ".json"
    /\ pre.object.class \in {"Protocol", "ExperimentLog"}
    /\ (pre.object.class = "Protocol")
            <=> (call.op \in {"Protocol._upgrade", "Protocol.load"})

\* the version the class supports
SupportedVersion ==
    IF pre.object.class = "Protocol" THEN fromstring(Protocol_class_version)
    ELSE fromstring(ExperimentLog_class_version)

(* C20: for Protocol and ExperimentLog alike, _upgrade, and so load, of a  *)
(* document whose version is above the class version always raises         *)
(* FutureVersionError; the document keeps every field (version, steps or   *)
(* data, payloads, uuid, metadata), load returns nothing and the file is   *)
(* left as it was.                                                          *)
C20_FutureVersionRejected ==
    (/\ OwnDocument
     /\ pre.object.version # None
     /\ VersionLess(SupportedVersion, fromstring(pre.object.version[1])))
        => /\ call.raised = "FutureVersionError"
           /\ file = pre
           /\ call.op \in {"Protocol._upgrade", "ExperimentLog._upgrade"}
                => /\ loaded # None
                   /\ loaded[1].version = pre.object.version
                   /\ loaded[1] = pre.object
           /\ call.op \in {"Protocol.load", "ExperimentLog.load"}
                => loaded = None

\* an experiment log of version 0.4.0 that holds a record was refused
C20_Witness ==
    /\ call.op = "ExperimentLog._upgrade"
    /\ pre.object.version = Some("0.4.0")
    /\ Len(pre.object.data) = 1
    /\ call.raised = "FutureVersionError"

----------------------------------------------------------------------------
(* What the upgrade claims speak of: the document before and after. *)

\* an _upgrade of a document whose version is not above the supported one
\* has returned
Upgraded(class) ==
    /\ call.op = class \o "._upgrade"
    /\ pre.object.class = class
    /\ call.raised = ""

\* the upgrade steps of a class: the floor version of each, ascending; a
\* step brings the document to its floor version
UpgradeSteps(class) ==
    IF class = "Protocol" THEN <<"0.1.0", "0.2.0">>
    ELSE <<"0.1.0", "0.2.0", "0.3.0">>

\* the steps due for a document of version v: those whose floor is above v
StepsDue(class, v) ==
    SelectSeq(UpgradeSteps(class), LAMBDA t : VersionLess(fromstring(v), fromstring(t)))

\* each payload of dict after is the yaml text of the same payload of before
Reencoded(before, after) ==
    /\ DOMAIN after = DOMAIN before
    /\ \A k \in DOMAIN before :
            after[k] = [obj |-> before[k].obj, enc |-> Append(before[k].enc, "yaml")]

\* a record of a reshaped log: yaml text by plugin name
Reshaped(record) ==
    \A k \in DOMAIN record :
        /\ record[k].enc = <<"yaml">>
        /\ k \notin ResultKeys \cup {Sentinel, "time"}

(* C21: _upgrade of a document below the supported version applies exactly *)
(* the steps whose floor version is above the document's version, in        *)
(* ascending order, storing each step's version, and ends at the class     *)
(* version (Protocol: below 0.1 every payload re-encoded as yaml text,      *)
(* below 0.2 current_step_attempt 0; ExperimentLog: below 0.1.0 records     *)
(* reshaped, below 0.2.0 a new uuid, below 0.3.0 empty metadata); a         *)
(* document at the supported version is left unchanged.                     *)
C21_UpgradeStepsAscending ==
    /\ Upgraded("Protocol") =>
          LET d == pre.object
              u == loaded[1]
              due == StepsDue("Protocol", d.version[1])
              has(t) == \E i \in DOMAIN due : due[i] = t
          IN  /\ call.arg = due
              /\ u.version = Some(Protocol_class_version)
              /\ due = << >> => u = d
              /\ Len(u.steps) = Len(d.steps)
              /\ IF has("0.1.0")
                 THEN /\ Reencoded(d.plugin_data, u.plugin_data)
                      /\ \A i \in DOMAIN d.steps : Reencoded(d.steps[i], u.steps[i])
                 ELSE u.plugin_data = d.plugin_data /\ u.steps = d.steps
              /\ IF has("0.2.0") THEN u.current_step_attempt = Some(0)
                 ELSE u.current_step_attempt = d.current_step_attempt
    /\ Upgraded("ExperimentLog") =>
          LET d == pre.object
              u == loaded[1]
              due == StepsDue("ExperimentLog", d.version[1])
              has(t) == \E i \in DOMAIN due : due[i] = t
          IN  /\ call.arg = due
              /\ u.version = Some(ExperimentLog_class_version)
              /\ due = << >> => u = d
              /\ Len(u.data) = Len(d.data)
              /\ IF has("0.1.0")
                 THEN \A i \in DOMAIN u.data : Reshaped(u.data[i])
                 ELSE u.data = d.data
              /\ IF has("0.2.0") THEN u.uuid # None /\ u.uuid[1] \in Uuids
                 ELSE u.uuid = d.uuid
              /\ IF has("0.3.0") THEN u.metadata = Some(EmptyDict)
                 ELSE u.metadata = d.metadata

\* a Protocol of version 0.0.0 with a payload went through both steps
C21_Witness ==
    /\ Upgraded("Protocol")
    /\ pre.format # "memory"
    /\ pre.object.version = Some("0.0.0")
    /\ \E i \in DOMAIN pre.object.steps : DOMAIN pre.object.steps[i] # {}
    /\ call.arg = <<"0.1.0", "0.2.0">>

(* C22: upgrading a Protocol or an ExperimentLog a second time leaves the   *)
(* document the first upgrade gave, payload encodings, uuid and metadata   *)
(* included; so does upgrading a document at the current version.          *)
C22_UpgradeIdempotent ==
    \A class \in {"Protocol", "ExperimentLog"} :
        Upgraded(class) =>
            /\ pre.format = "memory" => loaded[1] = pre.object /\ call.arg = << >>
            /\ pre.object.version = Some(IF class = "Protocol"
                                         THEN Protocol_class_version
                                         ELSE ExperimentLog_class_version)
                    => loaded[1] = pre.object

\* a log that was upgraded from below 0.2.0, and so given a uuid, was
\* upgraded again
C22_Witness ==
    /\ Upgraded("ExperimentLog")
    /\ pre.format = "memory"
    /\ pre.object.uuid # None
    /\ pre.object.uuid[1] \in Uuids
    /\ Len(pre.object.data) > 0

----------------------------------------------------------------------------
(* What the load claims speak of. *)

\* a load of a file whose document stores its payloads as text has returned
\* the document
Loaded(class) ==
    /\ call.op = class \o ".load"
    /\ call.raised = ""
    /\ pre.format \in {"pickle", "yaml"}
    /\ pre.ext # ".json"
    /\ pre.object.class = class
    /\ ~VersionLess(fromstring(with_version(pre.object).version[1]),
                    Version(0, 1, 0))

\* the payload dictionaries of a document, as one sequence
Records(doc) ==
    IF doc.class = "Protocol" THEN <<doc.plugin_data>> \o doc.steps ELSE doc.data

\* the text of payload p can be read by neither decoder
Undecodable(p) == p.enc # << >> /\ pickle_loads(p).raised /\ yaml_load(p).raised

\* the places of the undecodable payloads of a document
UndecodableAt(doc) ==
    {<<i, k>> \in (DOMAIN Records(doc)) \X (Plugins \cup {"core"}) :
        k \in DOMAIN Records(doc)[i] /\ Undecodable(Records(doc)[i][k])}

\* the marker of a record that load gave up on
Missing == [obj |-> 0, enc |-> <<"missing">>]

(* C23: when one plugin record of the file cannot be decoded by pickle or   *)
(* yaml, Protocol.load and ExperimentLog.load still return the document,    *)
(* that record holds the missing marker and not its stored text, and every *)
(* other record holds its decoded value.                                    *)
C23_UndecodableRecordDropped ==
    \A class \in {"Protocol", "ExperimentLog"} :
        (Loaded(class) /\ Cardinality(UndecodableAt(pre.object)) = 1) =>
            /\ loaded # None
            /\ \A i \in DOMAIN Records(pre.object) :
                 \A k \in DOMAIN Records(pre.object)[i] :
                    Records(loaded[1])[i][k] =
                        IF <<i, k>> \in UndecodableAt(pre.object) THEN Missing
                        ELSE decode(Records(pre.object)[i][k])

----------------------------------------------------------------------------
(* What the dictionary claims speak of. *)

\* the plugin_data of step i (from 1) of the protocol the call started from
PreDictStep(i) == pre.dict_obj[pre.step_obj[pre.steps[i]]]

(* C25: for every Protocol made by the constructor (any name, the default  *)
(* included) and set_data, from_dict(to_dict(p)) returns a Protocol with    *)
(* the same name, version, number of steps and per-step plugin names, and   *)
(* every payload that implements the to-dict contract equal to the          *)
(* original.                                                                *)
C25_DictRoundTrip ==
    call.op = "from_dict(to_dict)" =>
        /\ call.raised = ""
        /\ loaded # None
        /\ loaded[1].name = pre.name
        /\ loaded[1].version = Some(pre.version)
        /\ Len(loaded[1].steps) = Len(pre.steps)
        /\ \A i \in DOMAIN pre.steps :
                /\ DOMAIN loaded[1].steps[i] = DOMAIN PreDictStep(i)
                /\ \A k \in DOMAIN PreDictStep(i) :
                        PreDictStep(i)[k] \in OptionsObjects
                            => loaded[1].steps[i][k] = PreDictStep(i)[k]

\* the dictionary lacks name or version, or its version is not accepted
Unacceptable(d) ==
    \/ "name" \notin DOMAIN d
    \/ "version" \notin DOMAIN d
    \/ d.version # "0.2.0"

(* C28: from_dict, from_json and from_ndjson of a dictionary whose name or  *)
(* version is missing, or whose version is not an accepted schema version,  *)
(* raise the schema's ValidationError and make no Protocol; so does the     *)
(* validated JSON export of a protocol whose dictionary form violates the   *)
(* schema.                                                                  *)
C28_SchemaViolationRejected ==
    /\ (/\ call.op \in {"from_dict", "from_json", "from_ndjson"}
        /\ call.arg # None
        /\ Unacceptable(call.arg))
            => call.raised = "ValidationError" /\ loaded = None
    /\ (/\ call.op = "to_json"
        /\ call.arg.validate
        /\ pre.name = None)
            => call.raised = "ValidationError" /\ result.value = None

\* a dictionary of version 0.1.0 with a name and a step was refused by
\* from_ndjson
C28_Witness ==
    /\ call.op = "from_ndjson"
    /\ "name" \in DOMAIN call.arg
    /\ call.arg.name # None
    /\ "steps" \in DOMAIN call.arg
    /\ Len(call.arg.steps) = 1
    /\ "version" \in DOMAIN call.arg
    /\ call.arg.version = "0.1.0"
    /\ call.raised = "ValidationError"

(* C24: Protocol.load gives a file named *.json to the JSON reader; any    *)
(* other file goes to pickle first and to yaml only when pickle failed;     *)
(* when neither can read it the load raises TypeError and returns nothing,  *)
(* and when the decoded object is not a Protocol it raises TypeError too.   *)
C24_LoadRouting ==
    call.op = "Protocol.load" =>
        /\ pre.ext = ".json" =>
                /\ call.arg = <<"json">>
                /\ pre.format # "json" => call.raised = "ValueError" /\ loaded = None
                /\ pre.format = "json" =>
                        \/ call.raised = "ValidationError" /\ loaded = None
                        \/ /\ call.raised = ""
                           /\ loaded # None
                           /\ loaded[1].class = "Protocol"
                           /\ loaded[1].name = loads_document(pre.object).name
        /\ pre.ext # ".json" =>
                /\ call.arg = IF pre.format = "pickle" THEN <<"pickle">>
                              ELSE <<"pickle", "yaml">>
                /\ pre.format = "other" => call.raised = "TypeError" /\ loaded = None
                /\ (pre.format # "other" /\ read_file(pre)[1].class # "Protocol")
                        => call.raised = "TypeError" /\ loaded = None
                /\ (pre.format # "other" /\ read_file(pre)[1].class = "Protocol")
                        => call.raised \in {"", "FutureVersionError"}

\* a save of the live document has returned or raised
Saved == call.op \in {"Protocol.save", "ExperimentLog.save"}

(* C26: for every ExperimentLog, with any number of records (none          *)
(* included), load of the file that save wrote returns a log with the same *)
(* data, uuid and metadata.                                                 *)
C26_LogSaveLoadRoundTrip ==
    call.op = "ExperimentLog.load(save)" =>
        /\ call.raised = ""
        /\ loaded # None
        /\ loaded[1].data = pre.object.data
        /\ loaded[1].uuid = pre.object.uuid
        /\ loaded[1].metadata = pre.object.metadata

(* C27: Protocol.save and ExperimentLog.save leave the live document as it  *)
(* was, whether they return or raise: every payload still in its in-memory  *)
(* form and every other field unchanged; the file holds a copy whose        *)
(* payloads are serialized.                                                 *)
C27_SaveLeavesLiveDocument ==
    Saved =>
        /\ loaded = Some(pre.object)
        /\ (call.raised = "" /\ file.format # "none") =>
              /\ Len(Records(file.object)) = Len(Records(pre.object))
              /\ \A i \in DOMAIN Records(pre.object) :
                    /\ DOMAIN Records(file.object)[i] = DOMAIN Records(pre.object)[i]
                    /\ \A k \in DOMAIN Records(pre.object)[i] :
                          /\ Records(file.object)[i][k].obj = Records(pre.object)[i][k].obj
                          /\ Records(file.object)[i][k].enc =
                                Append(Records(pre.object)[i][k].enc,
                                       IF call.op = "Protocol.save" THEN "pickle"
                                       ELSE call.arg)

\* a protocol with a payload in a step was saved as yaml
C27_Witness ==
    /\ call.op = "Protocol.save"
    /\ call.arg = "yaml"
    /\ call.raised = ""
    /\ \E i \in DOMAIN pre.object.steps : DOMAIN pre.object.steps[i] # {}
    /\ file.format = "yaml"

-----------------------------------------------------------------------------
(* The experiment log and its directory (experiment_log.py): a directory   *)
(* of subdirectories, the logs one writer constructs on it, the records it *)
(* adds to them and the saves it makes.                                    *)

\* the most logs constructed
MaxLogs == 2

\* no add_step or add_data starts on a log that holds this many records
MaxRecords == 1

\* str(i) of the integers a subdirectory is named by, at index i + 1
Numerals == <<"0", "1", "2", "3", "4", "5", "6", "7", "8", "9">>

\* is_int(name): int(name) does not raise
is_int(name) == \E i \in DOMAIN Numerals : Numerals[i] = name

\* int(name) of a name that is_int
int(name) == (CHOOSE i \in DOMAIN Numerals : Numerals[i] = name) - 1

\* str(experiment_id)
str_experiment_id(experiment_id) == Numerals[experiment_id + 1]

\* the names of the subdirectories the directory holds at the start
LogNames == {"0", "1", "notes"}

\* what a subdirectory holds at the start: nothing, or the files of a run
LogFiles == {{}, {"data"}}

\* path(self.directory).listdir(): the entries, in any order
RECURSIVE listdir(_)
listdir(names) ==
    IF names = {} THEN {<< >>}
    ELSE UNION {{<<d>> \o rest : rest \in listdir(names \ {d})} : d \in names}

\* the loop body of _get_next_id with > in place of >=
next_id_greater(D, experiment_id, d) ==
    IF is_int(d) /\ int(d) > experiment_id
    THEN IF D[d] # {} THEN int(d) + 1 ELSE int(d)
    ELSE experiment_id

\* the loop body of _get_next_id on entry d of directory D
next_id(D, experiment_id, d) ==
    IF is_int(d) /\ int(d) >= experiment_id
    THEN IF D[d] # {} THEN int(d) + 1 ELSE int(d)
    ELSE experiment_id

\* the loop of _get_next_id over the entries logs[k..], in that order
RECURSIVE scan(_, _, _, _)
scan(D, logs, k, experiment_id) ==
    IF k > Len(logs) THEN experiment_id
    ELSE scan(D, logs, k + 1, next_id(D, experiment_id, logs[k]))

\* log_path.makedirs_p() unless log_path.isdir()
makedirs_p(D, name) ==
    IF name \in DOMAIN D THEN D
    ELSE [n \in DOMAIN D \cup {name} |-> IF n = name THEN {} ELSE D[n]]

\* self._get_next_id() on directory D listed as logs: [experiment_id,
\* directory]
ExperimentLog_get_next_id(D, logs) ==
    LET experiment_id == scan(D, logs, 1, 0)
    IN  [experiment_id |-> experiment_id,
         directory |-> makedirs_p(D, str_experiment_id(experiment_id))]

\* ExperimentLog(directory) once _get_next_id has set experiment_id: the
\* fields the directory scan, the records and save read
ExperimentLog_init(directory_arg, experiment_id) ==
    [class |-> "ExperimentLog", directory |-> directory_arg,
     experiment_id |-> experiment_id, data |-> << >>]

\* add_data writing into the first record in place of the last
add_data_first(data, keys, plugin_name) ==
    LET records == IF data = << >> THEN <<EmptyDict>> ELSE data
        first == records[1]
        entry == IF plugin_name \in DOMAIN first THEN first[plugin_name].obj
                 ELSE {}
    IN  [records EXCEPT ![1] =
            [k \in DOMAIN first \cup {plugin_name} |->
                IF k = plugin_name THEN [obj |-> entry \cup keys, enc |-> << >>]
                ELSE first[k]]]

\* self.add_data(data, plugin_name), data given by its keys
add_data(data, keys, plugin_name) ==
    LET records == IF data = << >> THEN <<EmptyDict>> ELSE data
        last == records[Len(records)]
        entry == IF plugin_name \in DOMAIN last THEN last[plugin_name].obj
                 ELSE {}
    IN  [records EXCEPT ![Len(records)] =
            [k \in DOMAIN last \cup {plugin_name} |->
                IF k = plugin_name THEN [obj |-> entry \cup keys, enc |-> << >>]
                ELSE last[k]]]

\* self.start_time(): the data it leaves, a start time added where no
\* record holds one
start_time(data) ==
    IF \E i \in DOMAIN data :
          "core" \in DOMAIN data[i] /\ "start time" \in data[i]["core"].obj
    THEN data
    ELSE add_data(data, {"start time"}, "core")

\* self.add_step(step_number, attempt)
add_step(data) ==
    Append(start_time(data),
           [core |-> [obj |-> {"step", "time", "attempt"}, enc |-> << >>]])

\* the files of self.get_log_path() after self.save(format=format)
save_files(files, self, format) ==
    IF ExperimentLog_save(self, format).file.format = "none" THEN files
    ELSE files \cup {"data"}

InitLog ==
    LET P == Protocol_init
    IN  /\ steps = P.steps
        /\ step_obj = P.step_obj
        /\ dict_obj = P.dict_obj
        /\ current_step_number = P.cur
        /\ current_repetition = P.rep
        /\ n_repeats = P.nrep
        /\ signals = << >>
        /\ pre = << >>
        /\ call = Called("__init__", None, None, "")
        /\ protocol_plugin_data = EmptyDict
        /\ ostream = << >>
        /\ result = NoResult
        /\ file = NoFile
        /\ loaded = None
        /\ protocol_name = None
        /\ directory \in UNION {[S -> LogFiles] : S \in SUBSET LogNames}
        /\ log = << >>
        /\ allocated = << >>

\* a call on the logs ends: the directory, the logs and the ids allocated
\* as it leaves them
ReturnLog(D, logs, ids, c) ==
    /\ directory' = D
    /\ log' = logs
    /\ allocated' = ids
    /\ pre' = directory
    /\ call' = c
    /\ UNCHANGED <<steps, step_obj, dict_obj, current_step_number,
                   current_repetition, n_repeats, signals, serializer_vars,
                   stored_vars>>

\* ExperimentLog(directory), the listing in any order
Construct ==
    /\ Len(log) < MaxLogs
    /\ \E logs \in listdir(DOMAIN directory) :
          LET N == ExperimentLog_get_next_id(directory, logs)
          IN  ReturnLog(N.directory,
                        Append(log, ExperimentLog_init(Some("logs"),
                                                       Some(N.experiment_id))),
                        Append(allocated, N.experiment_id),
                        Called("ExperimentLog", Some(Len(log) + 1), logs, ""))

\* ExperimentLog(), without a directory: experiment_id is None
ConstructDetached ==
    /\ Len(log) < MaxLogs
    /\ ReturnLog(directory, Append(log, ExperimentLog_init(None, None)),
                 allocated,
                 Called("ExperimentLog", Some(Len(log) + 1), << >>, ""))

\* log.add_step(step_number, attempt)
AddStep ==
    \E l \in DOMAIN log :
        /\ Len(log[l].data) < MaxRecords
        /\ ReturnLog(directory, [log EXCEPT ![l].data = add_step(@)],
                     allocated, Called("add_step", Some(l), << >>, ""))

\* log.add_data(data), plugin_name left at its default
AddData ==
    \E l \in DOMAIN log, plugin_name \in {"core"} :
        /\ Len(log[l].data) < MaxRecords
        /\ ReturnLog(directory,
                     [log EXCEPT ![l].data = add_data(@, {"x"}, plugin_name)],
                     allocated,
                     Called("add_data", Some(l), <<plugin_name>>, ""))

\* log.save(format=format), to its own path
Save ==
    \E l \in DOMAIN log, format \in Formats :
        /\ log[l].experiment_id # None
        /\ LET name == str_experiment_id(log[l].experiment_id[1])
           IN  ReturnLog([directory EXCEPT
                             ![name] = save_files(@, log[l], format)],
                         log, allocated,
                         Called("save", Some(l), <<format>>,
                                ExperimentLog_save(log[l], format).raised))

NextLog ==
    \/ Construct
    \/ ConstructDetached
    \/ AddStep
    \/ AddData
    \/ Save

SpecLog == InitLog /\ [][NextLog]_vars

\* the greatest integer a subdirectory of D is named by; -1 where none is
MaxLogId(D) ==
    LET ids == {int(d) : d \in {n \in DOMAIN D : is_int(n)}}
    IN  IF ids = {} THEN -1 ELSE CHOOSE i \in ids : \A j \in ids : j <= i

\* the log a construction on the directory has just made
Constructed ==
    /\ call.op = "ExperimentLog"
    /\ log[Len(log)].directory # None

\* C29: a log constructed on a directory has as experiment_id the greatest
\* integer that names a subdirectory, plus one if that subdirectory holds
\* anything and as it is if it is empty, and 0 where no subdirectory is
\* named by an integer, in whatever order the listing came.
C29_NextIdIsMaxPlusNonEmpty ==
    Constructed =>
        LET m == MaxLogId(pre)
            experiment_id == log[Len(log)].experiment_id[1]
        IN  /\ m = -1 => experiment_id = 0
            /\ m >= 0 /\ pre[str_experiment_id(m)] # {} => experiment_id = m + 1
            /\ m >= 0 /\ pre[str_experiment_id(m)] = {} => experiment_id = m

\* subdirectories 0 (empty) and 1 (holding files), listed with 1 before 0,
\* gave id 2
C29_Witness ==
    /\ Constructed
    /\ "0" \in DOMAIN pre /\ pre["0"] = {}
    /\ "1" \in DOMAIN pre /\ pre["1"] # {}
    /\ \E i, j \in DOMAIN call.arg :
          i < j /\ call.arg[i] = "1" /\ call.arg[j] = "0"
    /\ log[Len(log)].experiment_id = Some(2)

\* C30: the ids allocated never decrease, no two logs are allocated the
\* same id, and no log is allocated the id of a subdirectory that held
\* data when it was constructed.
C30_IdsIncreasingAndCollisionFree ==
    /\ \A i, j \in DOMAIN allocated :
          i < j => allocated[i] <= allocated[j]
    /\ \A i, j \in DOMAIN allocated :
          i # j => allocated[i] # allocated[j]
    /\ Constructed =>
          LET name == str_experiment_id(log[Len(log)].experiment_id[1])
          IN  name \in DOMAIN pre => pre[name] = {}

-----------------------------------------------------------------------------
(* The records of one experiment log (experiment_log.py): a log newly      *)
(* constructed without a directory, and the calls that read and write its  *)
(* data.                                                                   *)

\* no call that adds to data starts on a log that holds this many records
MaxData == 3

\* self.get(name, plugin_name): for each record, whether it holds a value
\* under the name (None where it does not)
get(data, name, plugin_name) ==
    [i \in DOMAIN data |->
        plugin_name \in DOMAIN data[i] /\ name \in data[i][plugin_name].obj]

InitRecords ==
    LET P == Protocol_init
    IN  /\ steps = P.steps
        /\ step_obj = P.step_obj
        /\ dict_obj = P.dict_obj
        /\ current_step_number = P.cur
        /\ current_repetition = P.rep
        /\ n_repeats = P.nrep
        /\ signals = << >>
        /\ pre = << >>
        /\ call = Called("__init__", None, None, "")
        /\ protocol_plugin_data = EmptyDict
        /\ ostream = << >>
        /\ result = NoResult
        /\ file = NoFile
        /\ loaded = None
        /\ protocol_name = None
        /\ directory = EmptyDict
        /\ log = <<ExperimentLog_init(None, None)>>
        /\ allocated = << >>

\* a call on the log ends: the data it leaves, the file at the path given
\* to save, and the data it started from
ReturnRecords(data, f, c) ==
    /\ log' = [log EXCEPT ![1].data = data]
    /\ file' = f
    /\ pre' = log[1].data
    /\ call' = c
    /\ UNCHANGED <<steps, step_obj, dict_obj, current_step_number,
                   current_repetition, n_repeats, signals, serializer_vars,
                   loaded, directory, allocated>>

\* log.add_step(step_number, attempt)
RecordsAddStep ==
    /\ Len(log[1].data) < MaxData
    /\ ReturnRecords(add_step(log[1].data), file,
                     Called("add_step", None, << >>, ""))

\* log.add_data(data, plugin_name)
RecordsAddData ==
    \E plugin_name \in {"core"} \cup Plugins, k \in {"x"} :
        /\ Len(log[1].data) < MaxData
        /\ ReturnRecords(add_data(log[1].data, {k}, plugin_name), file,
                         Called("add_data", None, <<plugin_name, k>>, ""))

\* log.start_time()
RecordsStartTime ==
    /\ Len(log[1].data) < MaxData
    /\ ReturnRecords(start_time(log[1].data), file,
                     Called("start_time", None, << >>, ""))

\* log.get(name, plugin_name)
RecordsGet ==
    \E plugin_name \in {"core"} \cup Plugins, name \in {"start time", "x"} :
        ReturnRecords(log[1].data, file,
                      Called("get", None,
                             get(log[1].data, name, plugin_name), ""))

\* log.save(filename, format)
RecordsSave ==
    \E format \in Formats :
        LET S == ExperimentLog_save(log[1], format)
        IN  ReturnRecords(S.self.data,
                          IF S.file.format = "none" THEN file ELSE S.file,
                          Called("save", None, <<format>>, S.raised))

NextRecords ==
    \/ RecordsAddStep
    \/ RecordsAddData
    \/ RecordsStartTime
    \/ RecordsGet
    \/ RecordsSave

SpecRecords == InitRecords /\ [][NextRecords]_vars

\* a call on the log has returned
RecordsCalled == call.op \in {"add_step", "add_data", "start_time", "get", "save"}

\* C31: add_step, add_data, start_time, get and save never shorten data
\* and leave every record but the last one they found as it was, in its
\* place.
C31_DataAppendOnly ==
    RecordsCalled =>
        /\ Len(log[1].data) >= Len(pre)
        /\ \A i \in 1..(Len(pre) - 1) : log[1].data[i] = pre[i]

\* add_data found two records and wrote into the last one only
C31_Witness ==
    /\ call.op = "add_data"
    /\ Len(pre) = 2
    /\ Len(log[1].data) = 2
    /\ log[1].data[2] # pre[2]
    /\ log[1].data[1] = pre[1]

\* the keys a record of a step carries under "core"
StepKeys == {"step", "time", "attempt"}

\* C32: after add_step, add_data and start_time calls on a new log, every
\* record holds a "core" entry carrying step, time and attempt.
C32_EveryRecordCarriesStep ==
    \A i \in DOMAIN log[1].data :
        /\ "core" \in DOMAIN log[1].data[i]
        /\ StepKeys \subseteq log[1].data[i]["core"].obj

-----------------------------------------------------------------------------
(* The notifications and the repetition counter of the step-sequence       *)
(* operations, under Spec.                                                 *)

\* the index insert_step was asked to insert at
InsertedAt == IF call.step_number = None THEN pre.cur ELSE call.step_number[1]

\* C33: a delete_step that leaves the sequence non-empty emits one
\* on_step_swapped carrying the cursor before and the cursor after the
\* removal, also where the two are the same number; goto_step(i) sets the
\* cursor to i and emits exactly one on_step_swapped carrying the previous
\* index and i.
C33_CursorSwapNotified ==
    /\ (call.op = "delete_step" /\ Len(pre.steps) >= 2) =>
            Emitted("on_step_swapped") =
                <<[name |-> "on_step_swapped",
                   args |-> <<pre.cur, current_step_number>>]>>
    /\ call.op = "goto_step" =>
            /\ current_step_number = call.step_number[1]
            /\ signals = <<[name |-> "on_step_swapped",
                            args |-> <<pre.cur, call.step_number[1]>>]>>

\* a step after the cursor was deleted: the cursor kept its index and the
\* notification was emitted all the same
C33_Witness ==
    /\ call.op = "delete_step"
    /\ Len(pre.steps) >= 2
    /\ call.step_number[1] > pre.cur
    /\ current_step_number = pre.cur
    /\ Len(Emitted("on_step_swapped")) = 1

\* C34: on_step_created and on_step_inserted of insert_step(at, value)
\* carry the index the step was inserted at, wherever the cursor is.
C34_InsertSignalsCarryIndex ==
    call.op = "insert_step" =>
        \A k \in DOMAIN signals :
            signals[k].name \in {"on_step_created", "on_step_inserted"}
                => signals[k].args = <<InsertedAt>>

\* C35: the k >= 2 steps insert_steps(at, count=k) inserted are independent:
\* set_data on one of them leaves the plugin_data of the others empty.
C35_CountStepsIndependent ==
    (/\ call.op = "insert_steps"
     /\ call.raised = ""
     /\ call.arg.count # None
     /\ call.arg.count[1] >= 2)
        => LET at == call.step_number[1]
               k  == call.arg.count[1]
           IN  \A i, j \in at..(at + k - 1) :
                  i # j =>
                    \A plugin_name \in Plugins, data \in Payloads :
                        LET Q == Step_set_data(Live, ListGet(steps, i),
                                               plugin_name, data)
                        IN  DOMAIN Q.dict_obj[Q.step_obj[ListGet(Q.steps, j)]] = {}

\* the operations that are to leave the repetition counter alone
RepetitionKept ==
    {"insert_step", "insert_steps", "delete_step", "delete_steps",
     "next_step", "prev_step", "last_step", "goto_step"}

\* C38: insert_step, insert_steps, delete_step, delete_steps, next_step,
\* prev_step, last_step and goto_step leave current_repetition and
\* n_repeats as they were, first_step sets current_repetition and the
\* cursor to 0, and current_repetition is always in [0, n_repeats).
C38_RepetitionFrame ==
    /\ call.op \in RepetitionKept =>
            /\ current_repetition = pre.rep
            /\ n_repeats = pre.nrep
    /\ call.op = "first_step" =>
            /\ current_repetition = 0
            /\ current_step_number = 0
            /\ n_repeats = pre.nrep
    /\ current_repetition \in 0..(n_repeats - 1)

\* first_step in repetition 1, away from step 0, went back to repetition 0
C38_Witness ==
    /\ call.op = "first_step"
    /\ pre.rep > 0
    /\ pre.cur > 0
    /\ current_repetition = 0

-----------------------------------------------------------------------------
(* What the upgrade of an old experiment log keeps. *)

\* C36: the upgrade of an ExperimentLog below 0.2.0 that already carries a
\* uuid leaves that uuid.
C36_UpgradeKeepsUuid ==
    (/\ Upgraded("ExperimentLog")
     /\ VersionLess(fromstring(pre.object.version[1]), Version(0, 2, 0))
     /\ pre.object.uuid # None)
        => loaded[1].uuid = pre.object.uuid

\* the plugin names the sentinel keys of legacy records d give
InferredNames(d) ==
    {ControlBoard(d[i][Sentinel]) : i \in {j \in DOMAIN d : Sentinel \in DOMAIN d[j]}}

\* C37: the upgrade of an ExperimentLog below 0.1.0 keeps the number of
\* records, and every key of a legacy record whose value decodes is, with
\* its value, in exactly one plugin entry of the record at the same index:
\* a result key under the plugin name the sentinel gives, where there is a
\* sentinel, every other key under "core".
C37_ReshapeLosesNoField ==
    (/\ Upgraded("ExperimentLog")
     /\ VersionLess(fromstring(pre.object.version[1]), Version(0, 1, 0)))
        => LET d == pre.object.data
               u == loaded[1].data
           IN  /\ Len(u) = Len(d)
               /\ \A i \in DOMAIN d : \A k \in DOMAIN d[i] :
                    LET isresult == k \in ResultKeys /\ InferredNames(d) # {}
                        decodes  == ~isresult \/ ~pickle_loads(d[i][k]).raised
                        value    == IF isresult THEN pickle_loads(d[i][k]).value
                                    ELSE d[i][k]
                        holders  == {name \in DOMAIN u[i] :
                                        k \in DOMAIN u[i][name].obj}
                    IN  decodes =>
                          /\ holders = IF isresult THEN InferredNames(d)
                                       ELSE {"core"}
                          /\ \A name \in holders : u[i][name].obj[k] = value

-----------------------------------------------------------------------------
(* What a save in an unsupported format leaves. *)

\* C39: Protocol.save and ExperimentLog.save with a format other than
\* pickle and yaml raise, and the path they were given, which held no file,
\* holds none afterwards.
C39_BadFormatLeavesNoFile ==
    (Saved /\ call.arg \notin {"pickle", "yaml"})
        => /\ call.raised # ""
           /\ file.format = "none"

-----------------------------------------------------------------------------
(* What the round trips keep of the protocol-wide plugin_data. *)

\* a round trip through the dictionary or the line form has returned
RoundTrip ==
    /\ call.op \in {"from_dict(to_dict)", "from_ndjson(to_ndjson)"}
    /\ call.raised = ""

\* C40: the Protocol that from_dict(to_dict(p)), and from_ndjson of
\* to_ndjson(p), return has the protocol-wide plugin_data of p: the same
\* keys with the same values.
C40_RoundTripKeepsPluginData ==
    RoundTrip =>
        /\ loaded # None
        /\ DOMAIN loaded[1].plugin_data = DOMAIN pre.plugin_data
        /\ \A k \in DOMAIN pre.plugin_data :
                loaded[1].plugin_data[k] = pre.plugin_data[k]

====
